---- MODULE Spec2Model ----
(***************************************************************************)
(* Model of the Obsidian MCP DevTools bridge (auto_port_bridge.js).        *)
(*                                                                         *)
(* Spec      the protocol translator and request correlator: stdin        *)
(*           requests, the pendingRequests table, the per-request 15 s    *)
(*           timers, the peer connections and the stdout frames.  The     *)
(*           listener is up (createServer has returned).                  *)
(* SpecPort  the port allocator: createServer, loadLastSuccessfulPort,    *)
(*           saveSuccessfulPort and the persisted active_port.txt across  *)
(*           process starts.                                              *)
(* SpecSvc   the supervisor (auto_service.js): pid files, the bridge      *)
(*           child, restarts, the health check and the signals.           *)
(* SpecStdin the stdin 'data' handler of the bridge on characters: the    *)
(*           line buffer, JSON.parse and the answer to each line.         *)
(* SpecSweep legacy bridge.js: the 5 s liveness sweep of its sockets.     *)
(* SpecDedup legacy service.js: forwarding of the bridge's responses.     *)
(* SpecListener  the listener of the bridge at run time: 'error' and      *)
(*           'close' of the server, the 2 s timers and shutdown.          *)
(* SpecLock  several supervisor instances and the shared pid files.       *)
(* SpecLegacy    legacy bridge.js: its pendingRequests table.             *)
(* SpecPlugin    the plugin (main.ts): its connect and reconnect loop.    *)
(*                                                                         *)
(* One action is one callback of the Node.js event loop together with the  *)
(* promise continuations (microtasks) it releases, which run before the    *)
(* next callback.                                                          *)
(***************************************************************************)
EXTENDS Integers, Sequences, FiniteSets, TLC

\* ------------------------------------------------------------------ bounds
MaxRequests == 2   \* request lines read from stdin in one run
MaxConns    == 2   \* peer connections accepted in one run
MaxStarts   == 2   \* process starts that share one active_port.txt
MaxChildren == 5   \* bridge processes one supervisor spawns
MaxLines    == 1   \* lines the client writes to the supervisor's stdin

\* ------------------------------------------------------- program constants
DEFAULT_PORT == 27125
PORT_MIN     == 27125
PORT_MAX     == 27135
ERROR_CODE   == -32603
NoConn       == 0      \* obsidianConnection = null
MAX_RESTARTS     == 5
RESTART_COOLDOWN == 60000
RESTART_DELAY    == 2000
CHECK_INTERVAL   == 10000
NoChild      == 0      \* bridgeProcess = null

VARIABLES
    \* process
    running,            \* FALSE after process.exit
    stdinOpen,          \* FALSE after stdin 'end'
    isShuttingDown,
    \* listener
    server,             \* "none" | "binding" | "listening" | "closed"
    conns,              \* peer sockets that are open (handlers attached)
    nextConn,           \* next socket to be accepted
    obsidianConnection, \* NoConn or a socket
    \* correlator
    pendingRequests,    \* keys of the Map
    timers,             \* ids whose 15 s timer is armed
    nextRequestId,
    calls,              \* per issued id: the promise of forwardToObsidian
    \* translator
    requests,           \* parsed request lines, in arrival order
    stdout,             \* frames written to process.stdout
    late,               \* issued ids a peer frame named after they left the table
    \* port allocator
    cs,                 \* createServer run: [pc, port, retry]
    currentPort,
    portFile,           \* active_port.txt: [exists, content]
    attempts,           \* ports the current createServer run tried to bind
    lastBind,           \* outcome of the last bind attempt
    starts,             \* process starts so far
    persisted,          \* port saved by this process (0: none)
    prevPersisted       \* port saved by the previous process (0: none)

\* auto_service.js (the Supervisor)
VARIABLES
    svcPc,              \* "init" | "running" | "exited"
    exitCode,           \* code given to process.exit (-1: none)
    shutdownRequested,
    restartCount,
    age,                \* now - lastRestartTime in units of RESTART_DELAY,
                        \* saturating above RESTART_COOLDOWN
    bridgeProcess,      \* NoChild or a child
    alive,              \* children that are running
    nextChild,          \* next child to be spawned
    restartTimers,      \* 2 s timers of the exit handler: time left, in order
    cooldownTimers,     \* 60 s timers of the throttle: time left, in order
    healthOn,           \* the health-check interval is set
    healthIn,           \* time to its next run, in units of RESTART_DELAY
    sigtermSent,        \* children the Supervisor sent SIGTERM to
    servicePidFile,     \* service.pid: 0 (absent) or a pid
    bridgePidFile,      \* bridge.pid: 0 (absent) or a pid
    killed,             \* stale pids signalled at launch
    lastSpawn,          \* "none" | "ok" | "failed": outcome of the last spawn
    owed,               \* a child exited that the Supervisor did not signal,
                        \* and no child was spawned since
    lineTo              \* per client line: to how many children it was piped

\* The stdin 'data' handler of the bridge, character by character
VARIABLES
    stdinText,          \* everything the client writes to stdin in this run
    stdinRest,          \* the part of it that has not arrived yet
    inputBuffer,
    stdinLines,         \* lines the handler cut out: [text, chunk]
    stdinOut,           \* frames written for them (req: index of the line)
    chunks              \* 'data' events so far

\* Legacy bridge.js: the 5 s liveness sweep of its server
VARIABLES
    clients,            \* server.clients
    isAlive,            \* per socket: its isAlive flag
    pingsOut,           \* per socket: pings sent and not answered
    terminated,         \* sockets terminate() was called on
    lastPong,           \* per socket: sweeps done at its last pong (or connect)
    terminatedAt,       \* per socket: sweeps done when it was terminated
    nextClient,
    sweeps              \* runs of the interval callback so far

\* Legacy service.js: the bridge.stdout 'data' handler
VARIABLES
    responsesSent,
    bridgeOutputBuffer, \* response lines not yet looked at
    writeCallbacks,     \* ids whose process.stdout.write callback is due
    clientStdout,       \* response lines written to process.stdout
    dataEvents          \* 'data' events so far

bridgeVars == <<stdinOpen, conns, nextConn, obsidianConnection,
                pendingRequests, timers, nextRequestId, calls, requests,
                stdout, late>>
portVars   == <<cs, currentPort, portFile, attempts, lastBind, starts,
                persisted, prevPersisted>>
svcVars == <<svcPc, exitCode, shutdownRequested, restartCount, age,
             bridgeProcess, alive, nextChild, restartTimers, cooldownTimers,
             healthOn, healthIn, sigtermSent, servicePidFile, bridgePidFile,
             killed,
             lastSpawn, owed, lineTo>>
\* The listener of the bridge at run time
VARIABLES
    servers,            \* the WebSocket.Server objects created so far
    serverRef,          \* the one the variable server refers to (0: null)
    runs,               \* calls of createServer that have not returned
    createCalls,        \* calls of createServer that are due (startup, timers)
    faults              \* 'error' events raised on a listening server

\* Several Supervisor instances of auto_service.js on one pair of pid files
VARIABLES
    instPc,             \* per instance: "off", "cleaned", "running", "exited"
    childUp,            \* per instance: its bridge child is alive
    sigPending          \* pids with a SIGTERM that was sent and not yet handled

\* Legacy bridge.js: its pending table, keyed by the id of the client
VARIABLES
    lgConnected,        \* obsidianConnection is set
    lgPending,          \* pendingRequests: pairs <<client id, call>>
    lgCalls,            \* forwarded calls: [id, promise, why]
    lgTimers            \* calls whose 15 s timer is armed

\* The Obsidian plugin (main.ts) and the bridge it looks for
VARIABLES
    plPhase,            \* "new", "loaded" (after onload), "unloaded"
    sockets,            \* WebSocket objects not yet closed: [port, state]
    webSocket,          \* index in sockets of this.webSocket (0: null or closed)
    reconnecting,
    reconnectTimer,     \* the timer of this.reconnectTimeout is armed
    attemptCount,
    currentPortIndex,
    lastActivePort,     \* 0: null
    localStorage,       \* item devtools-mcp-port as text (empty: no item)
    bridgePort,         \* the port the bridge listens on
    bridgeMoves         \* restarts of the bridge on another port so far

stdinVars == <<stdinText, stdinRest, inputBuffer, stdinLines, stdinOut, chunks>>
sweepVars == <<clients, isAlive, pingsOut, terminated, lastPong, terminatedAt,
               nextClient, sweeps>>
dedupVars == <<responsesSent, bridgeOutputBuffer, writeCallbacks, clientStdout,
               dataEvents>>
listenerVars == <<servers, serverRef, runs, createCalls, faults>>
lockVars == <<instPc, childUp, sigPending>>
legacyVars == <<lgConnected, lgPending, lgCalls, lgTimers>>
pluginVars == <<plPhase, sockets, webSocket, reconnecting, reconnectTimer,
                attemptCount, currentPortIndex, lastActivePort, localStorage, bridgePort,
                bridgeMoves>>
moreVars == <<listenerVars, lockVars, legacyVars, pluginVars>>
auxVars == <<stdinVars, sweepVars, dedupVars, moreVars>>
vars == <<running, isShuttingDown, server, bridgeVars, portVars, svcVars,
          auxVars>>

\* ---------------------------------------------------------------- inputs
\* Request identifiers as their JSON text: a number, zero, an empty string.
ClientIds == {"7", "0", "\"\""}

\* Methods of the request lines fed to the model: one answered locally, the
\* forwarded one, one that processRequest does not know.
Methods == {"tools/list", "tools/call", "bogus/method"}

\* Well-formed request lines, and a tools/call that carries no params.
StdinMessages ==
    {[method |-> m, id |-> i, hasParams |-> TRUE] : m \in Methods, i \in ClientIds}
    \cup {[method |-> "tools/call", id |-> "7", hasParams |-> FALSE]}

\* What a peer frame can carry: an id (0 stands for an id that matches no
\* key, such as a string) and a result, an error, or unparsable text.
PeerIds   == 0..MaxRequests
PeerKinds == {"result", "error", "garbage"}

PEER_RESULT == <<"peer-result">>
PEER_ERROR  == "peer-error"

\* ------------------------------------------------------------- translator
\* JavaScript truthiness of an identifier, on its JSON text.
Falsy(id) == id \in {"0", "\"\"", "null", "false"}

\* message.id || 0
OrZero(id) == IF Falsy(id) THEN "0" ELSE id

sendMcpResponse(r, id, result) ==
    [req |-> r, id |-> id, kind |-> "result", result |-> result,
     code |-> 0, message |-> ""]

sendMcpError(r, id, error) ==
    [req |-> r, id |-> id, kind |-> "error", result |-> <<>>,
     code |-> ERROR_CODE, message |-> error]

Return(v)  == [type |-> "return", isNull |-> FALSE, value |-> v, error |-> ""]
ReturnNull == [type |-> "return", isNull |-> TRUE, value |-> <<>>, error |-> ""]
Throw(e)   == [type |-> "throw", isNull |-> FALSE, value |-> <<>>, error |-> e]
Forward    == [type |-> "forward", isNull |-> FALSE, value |-> <<>>, error |-> ""]

\* Mutant: the catalog lacks get_console_logs.
TOOLS_two == <<"query_elements", "get_computed_styles">>

TOOLS == <<"query_elements", "get_computed_styles", "get_console_logs">>

\* processRequest up to its first await.
processRequest(message, conn) ==
    CASE message.method = "initialize" ->
            Return(<<"protocolVersion:2024-11-05", "serverInfo:obsidian-devtools">>)
      [] message.method = "notifications/initialized" -> Return(<<>>)
      [] message.method = "tools/list" -> Return(TOOLS)
      [] message.method = "tools/call" ->
            IF conn = NoConn
            THEN Throw("Not connected to Obsidian plugin")
            ELSE Forward
      [] message.method = "resources/list" -> Return(<<"resources:[]">>)
      [] message.method = "resources/templates/list" ->
            Return(<<"resourceTemplates:[]">>)
      [] OTHER -> Throw("Unknown method: " \o message.method)

\* Mutant: processRequest leaves the frame to its caller, which gets null.
toolsCallFrames_none(r, message, result) == <<>>

\* processRequest after forwardToObsidian fulfilled: writes the frame itself.
toolsCallFrames(r, message, result) ==
    <<sendMcpResponse(r, OrZero(message.id), result)>>

\* Mutant: the result is also returned, so handleMcpRequest answers again.
toolsCallReturn_again(result) == Return(result)

\* What processRequest returns after the tools/call frame was written.
toolsCallReturn(result) == ReturnNull

\* handleMcpRequest after processRequest returned.
handleReturn(r, message, response) ==
    IF response.isNull THEN <<>>
    ELSE <<sendMcpResponse(r, message.id, response.value)>>

\* Mutant: the catch block only logs.
handleCatch_silent(r, message, error) == <<>>

\* handleMcpRequest's catch block.
handleCatch(r, message, error) == <<sendMcpError(r, message.id, error)>>

\* Frames written once the promise of a forwarded call settles.
continuation(r, message, how, value, error) ==
    IF how = "fulfilled"
    THEN toolsCallFrames(r, message, value)
         \o handleReturn(r, message, toolsCallReturn(value))
    ELSE handleCatch(r, message, error)

\* ------------------------------------------------------------- correlator
\* A call of resolve or reject on the promise of id: only the first settles.
settle(c, how, why) ==
    [c EXCEPT !.n = @ + 1,
              !.promise = IF @ = "pending" THEN how ELSE @,
              !.why = IF c.promise = "pending" THEN why ELSE @]

\* Frames released by settling the promise of id.
settleFrames(id, how, value, error) ==
    IF calls[id].promise = "pending"
    THEN continuation(calls[id].req, requests[calls[id].req], how, value, error)
    ELSE <<>>

\* Keys of a Map in insertion order (ids are inserted in increasing order).
RECURSIVE entries(_)
entries(S) ==
    IF S = {} THEN <<>>
    ELSE LET m == CHOOSE x \in S : \A y \in S : x <= y
         IN <<m>> \o entries(S \ {m})

RECURSIVE rejectAllFrames(_, _)
rejectAllFrames(ids, error) ==
    IF ids = <<>> THEN <<>>
    ELSE settleFrames(Head(ids), "rejected", <<>>, error)
         \o rejectAllFrames(Tail(ids), error)

\* Mutant: the timer callback rejects and leaves the entry in the table.
timeoutDelete_keep(pending, id) == pending

\* The timer callback's removal of its entry.
timeoutDelete(pending, id) == pending \ {id}

\* Mutant: the close handler rejects and does not clear the table.
closeClear_keep(pending) == pending

\* The close handler's pendingRequests.clear().
closeClear(pending) == {}

\* cleanup(): clearTimeout for every pending entry; the entries stay.
cleanupTimers(armed, pending) == armed \ pending

\* Mutant: the entry is stored without a timeout.
forwardToObsidian_noTimer(message, r, conn, pending, armed, id) ==
    LET registered == pending \cup {id}
        fresh      == [req |-> r, conn |-> NoConn, promise |-> "pending",
                       why |-> "", n |-> 0]
    IN  IF conn = NoConn
        THEN [pending |-> registered \ {id}, timers |-> armed,
              call |-> settle(fresh, "rejected", "noConnection"),
              error |-> "No connection to Obsidian plugin"]
        ELSE IF ~message.hasParams
        THEN [pending |-> registered \ {id}, timers |-> armed,
              call |-> settle(fresh, "rejected", "sendError"),
              error |-> "Cannot read properties of undefined (reading 'name')"]
        ELSE [pending |-> registered, timers |-> armed,
              call |-> [fresh EXCEPT !.conn = conn],
              error |-> ""]

\* forwardToObsidian(params), called with the id it takes from nextRequestId:
\* the table, the timers and the promise as they are when it returns.
forwardToObsidian(message, r, conn, pending, armed, id) ==
    LET registered == pending \cup {id}
        armedNow   == armed \cup {id}
        fresh      == [req |-> r, conn |-> NoConn, promise |-> "pending",
                       why |-> "", n |-> 0]
    IN  IF conn = NoConn
        THEN [pending |-> registered \ {id}, timers |-> armedNow \ {id},
              call |-> settle(fresh, "rejected", "noConnection"),
              error |-> "No connection to Obsidian plugin"]
        ELSE IF ~message.hasParams
        THEN \* params.name throws a TypeError inside the try block
             [pending |-> registered \ {id}, timers |-> armedNow \ {id},
              call |-> settle(fresh, "rejected", "sendError"),
              error |-> "Cannot read properties of undefined (reading 'name')"]
        ELSE [pending |-> registered, timers |-> armedNow,
              call |-> [fresh EXCEPT !.conn = conn],
              error |-> ""]

\* ------------------------------------------------------- bridge: actions
\* process.stdin 'data' with one complete, well-formed request line.
StdinData(message) ==
    /\ running /\ stdinOpen
    /\ Len(requests) < MaxRequests
    /\ LET r  == Len(requests) + 1
           pr == processRequest(message, obsidianConnection)
       IN /\ requests' = Append(requests, message)
          /\ IF pr.type = "forward"
             THEN LET f == forwardToObsidian(message, r, obsidianConnection,
                                             pendingRequests, timers,
                                             nextRequestId)
                  IN /\ nextRequestId' = nextRequestId + 1
                     /\ pendingRequests' = f.pending
                     /\ timers' = f.timers
                     /\ calls' = Append(calls, f.call)
                     /\ stdout' = IF f.call.promise = "rejected"
                                  THEN stdout \o handleCatch(r, message, f.error)
                                  ELSE stdout
             ELSE /\ stdout' = stdout \o
                        (IF pr.type = "throw"
                         THEN handleCatch(r, message, pr.error)
                         ELSE handleReturn(r, message, pr))
                  /\ UNCHANGED <<nextRequestId, pendingRequests, timers, calls>>
    /\ UNCHANGED <<running, stdinOpen, isShuttingDown, server, conns, nextConn,
                   obsidianConnection, late, portVars, svcVars, auxVars>>

\* server 'connection': the new socket becomes the peer.
PeerConnect ==
    /\ running /\ server = "listening"
    /\ nextConn <= MaxConns
    /\ conns' = conns \cup {nextConn}
    /\ obsidianConnection' = nextConn
    /\ nextConn' = nextConn + 1
    /\ UNCHANGED <<running, stdinOpen, isShuttingDown, server, pendingRequests,
                   timers, nextRequestId, calls, requests, stdout, late, portVars, svcVars, auxVars>>

\* ws 'message' on socket c.
PeerMessage(c, id, kind) ==
    /\ running /\ c \in conns
    /\ IF kind # "garbage" /\ id \in pendingRequests
       THEN /\ timers' = timers \ {id}
            /\ pendingRequests' = pendingRequests \ {id}
            /\ IF kind = "error"
               THEN /\ calls' = [calls EXCEPT ![id] = settle(@, "rejected", "peerError")]
                    /\ stdout' = stdout \o settleFrames(id, "rejected", <<>>, PEER_ERROR)
               ELSE /\ calls' = [calls EXCEPT ![id] = settle(@, "fulfilled", "result")]
                    /\ stdout' = stdout \o settleFrames(id, "fulfilled", PEER_RESULT, "")
            /\ late' = late
       ELSE /\ late' = IF kind # "garbage" /\ id \in DOMAIN calls
                       THEN late \cup {id} ELSE late
            /\ UNCHANGED <<timers, pendingRequests, calls, stdout>>
    /\ UNCHANGED <<running, stdinOpen, isShuttingDown, server, conns, nextConn,
                   obsidianConnection, nextRequestId, requests, portVars, svcVars, auxVars>>

\* ws 'close' on socket c.
PeerClose(c) ==
    /\ running /\ c \in conns
    /\ conns' = conns \ {c}
    /\ obsidianConnection' = NoConn
    /\ timers' = timers \ pendingRequests
    /\ calls' = [id \in DOMAIN calls |->
                    IF id \in pendingRequests
                    THEN settle(calls[id], "rejected", "closed")
                    ELSE calls[id]]
    /\ stdout' = stdout \o rejectAllFrames(entries(pendingRequests),
                                           "WebSocket connection closed")
    /\ pendingRequests' = closeClear(pendingRequests)
    /\ UNCHANGED <<running, stdinOpen, isShuttingDown, server, nextConn,
                   nextRequestId, requests, late, portVars, svcVars, auxVars>>

\* Mutant: the timer callback rejects its request and empties the table.
Timeout_clearsAll(id) ==
    /\ running /\ id \in timers
    /\ timers' = timers \ {id}
    /\ IF id \in pendingRequests
       THEN /\ pendingRequests' = {}
            /\ calls' = [calls EXCEPT ![id] = settle(@, "rejected", "timeout")]
            /\ stdout' = stdout \o settleFrames(id, "rejected", <<>>,
                                     "Request timed out after 15 seconds")
       ELSE UNCHANGED <<pendingRequests, calls, stdout>>
    /\ UNCHANGED <<running, stdinOpen, isShuttingDown, server, conns, nextConn,
                   obsidianConnection, nextRequestId, requests, late, portVars, svcVars, auxVars>>

\* The 15 s timer of id fires.
Timeout(id) ==
    /\ running /\ id \in timers
    /\ timers' = timers \ {id}
    /\ IF id \in pendingRequests
       THEN /\ pendingRequests' = timeoutDelete(pendingRequests, id)
            /\ calls' = [calls EXCEPT ![id] = settle(@, "rejected", "timeout")]
            /\ stdout' = stdout \o settleFrames(id, "rejected", <<>>,
                                     "Request timed out after 15 seconds")
       ELSE UNCHANGED <<pendingRequests, calls, stdout>>
    /\ UNCHANGED <<running, stdinOpen, isShuttingDown, server, conns, nextConn,
                   obsidianConnection, nextRequestId, requests, late, portVars, svcVars, auxVars>>

\* process.stdin 'end': isShuttingDown and cleanup(); the process stays up.
StdinEnd ==
    /\ running /\ stdinOpen
    /\ stdinOpen' = FALSE
    /\ isShuttingDown' = TRUE
    /\ server' = IF server = "none" THEN server ELSE "closed"
    /\ timers' = cleanupTimers(timers, pendingRequests)
    /\ UNCHANGED <<running, conns, nextConn, obsidianConnection,
                   pendingRequests, nextRequestId, calls, requests, stdout,
                   late, portVars, svcVars, auxVars>>

\* SIGINT / SIGTERM: cleanup() and process.exit(0).
Signal ==
    /\ running
    /\ running' = FALSE
    /\ isShuttingDown' = TRUE
    /\ server' = IF server = "none" THEN server ELSE "closed"
    /\ timers' = cleanupTimers(timers, pendingRequests)
    /\ UNCHANGED <<stdinOpen, conns, nextConn, obsidianConnection,
                   pendingRequests, nextRequestId, calls, requests, stdout,
                   late, portVars, svcVars, auxVars>>

\* ------------------------------------------------ bridge: specification
\* Nothing has arrived on stdin.
StdinIdle ==
    /\ stdinText = <<>>
    /\ stdinRest = <<>>
    /\ inputBuffer = <<>>
    /\ stdinLines = <<>>
    /\ stdinOut = <<>>
    /\ chunks = 0

\* Legacy bridge.js with no client.
SweepIdle ==
    /\ clients = {}
    /\ isAlive = <<>>
    /\ pingsOut = <<>>
    /\ terminated = {}
    /\ lastPong = <<>>
    /\ terminatedAt = <<>>
    /\ nextClient = 1
    /\ sweeps = 0

\* Legacy service.js before its bridge wrote anything.
DedupIdle ==
    /\ responsesSent = {}
    /\ bridgeOutputBuffer = <<>>
    /\ writeCallbacks = <<>>
    /\ clientStdout = <<>>
    /\ dataEvents = 0

\* No listener was created.
ListenerIdle ==
    /\ servers = <<>>
    /\ serverRef = 0
    /\ runs = <<>>
    /\ createCalls = 0
    /\ faults = 0

\* No Supervisor instance was launched.
LockIdle ==
    /\ instPc = <<>>
    /\ childUp = <<>>
    /\ sigPending = {}

\* Legacy bridge.js without peer and without requests.
LegacyIdle ==
    /\ lgConnected = FALSE
    /\ lgPending = {}
    /\ lgCalls = <<>>
    /\ lgTimers = {}

\* The plugin is not installed.
PluginIdle ==
    /\ plPhase = "new"
    /\ sockets = <<>>
    /\ webSocket = 0
    /\ reconnecting = FALSE
    /\ reconnectTimer = FALSE
    /\ attemptCount = 0
    /\ currentPortIndex = 0
    /\ lastActivePort = 0
    /\ localStorage = <<>>
    /\ bridgePort = 0
    /\ bridgeMoves = 0

MoreIdle == ListenerIdle /\ LockIdle /\ LegacyIdle /\ PluginIdle

AuxIdle == StdinIdle /\ SweepIdle /\ DedupIdle /\ MoreIdle

\* The Supervisor before main() has run, no pid file on disk.
SvcIdle ==
    /\ svcPc = "init"
    /\ exitCode = -1
    /\ shutdownRequested = FALSE
    /\ restartCount = 0
    /\ age = (RESTART_COOLDOWN \div RESTART_DELAY) + 1
    /\ bridgeProcess = NoChild
    /\ alive = {}
    /\ nextChild = 1
    /\ restartTimers = <<>>
    /\ cooldownTimers = <<>>
    /\ healthOn = FALSE
    /\ healthIn = 0
    /\ sigtermSent = {}
    /\ servicePidFile = 0
    /\ bridgePidFile = 0
    /\ killed = {}
    /\ lastSpawn = "none"
    /\ owed = FALSE
    /\ lineTo = <<>>

PortIdle ==
    /\ cs = [pc |-> "done", port |-> DEFAULT_PORT, retry |-> FALSE]
    /\ currentPort = DEFAULT_PORT
    /\ portFile = [exists |-> FALSE, content |-> <<>>]
    /\ attempts = <<>>
    /\ lastBind = [port |-> 0, outcome |-> "none"]
    /\ starts = 1
    /\ persisted = 0
    /\ prevPersisted = 0

Init ==
    /\ running = TRUE
    /\ stdinOpen = TRUE
    /\ isShuttingDown = FALSE
    /\ server = "listening"
    /\ conns = {}
    /\ nextConn = 1
    /\ obsidianConnection = NoConn
    /\ pendingRequests = {}
    /\ timers = {}
    /\ nextRequestId = 1
    /\ calls = <<>>
    /\ requests = <<>>
    /\ stdout = <<>>
    /\ late = {}
    /\ PortIdle
    /\ SvcIdle
    /\ AuxIdle

Next ==
    \/ \E m \in StdinMessages : StdinData(m)
    \/ PeerConnect
    \/ \E c \in 1..MaxConns, id \in PeerIds, k \in PeerKinds : PeerMessage(c, id, k)
    \/ \E c \in 1..MaxConns : PeerClose(c)
    \/ \E id \in 1..MaxRequests : Timeout(id)
    \/ StdinEnd
    \/ Signal

Spec == Init /\ [][Next]_vars

\* Timers fire; the peer and the client are under no obligation.
FairSpec == Spec /\ \A id \in 1..MaxRequests : WF_vars(Timeout(id))

\* ---------------------------------------------------------- port allocator
\* Text of active_port.txt as a sequence of characters.
Digits == <<"0", "1", "2", "3", "4", "5", "6", "7", "8", "9">>

IsDigit(c) == \E d \in 1..10 : Digits[d] = c
DigitVal(c) == (CHOOSE d \in 1..10 : Digits[d] = c) - 1
IsSpace(c) == c \in {" ", "\n", "\r", "\t"}

\* Number.prototype.toString() of a non-negative integer.
RECURSIVE toString(_)
toString(n) ==
    IF n < 10 THEN <<Digits[n + 1]>>
    ELSE toString(n \div 10) \o <<Digits[(n % 10) + 1]>>

\* String.prototype.trim()
RECURSIVE trimStart(_)
trimStart(s) == IF s # <<>> /\ IsSpace(Head(s)) THEN trimStart(Tail(s)) ELSE s
RECURSIVE trimEnd(_)
trimEnd(s) ==
    IF s # <<>> /\ IsSpace(s[Len(s)]) THEN trimEnd(SubSeq(s, 1, Len(s) - 1)) ELSE s
trim(s) == trimEnd(trimStart(s))

\* Value of the longest prefix of decimal digits, continuing from acc.
RECURSIVE digitsPrefix(_, _)
digitsPrefix(s, acc) ==
    IF s # <<>> /\ IsDigit(Head(s))
    THEN digitsPrefix(Tail(s), 10 * acc + DigitVal(Head(s)))
    ELSE acc

\* parseInt(s): leading whitespace, an optional sign, then decimal digits;
\* NaN when no digit follows.
parseInt(s) ==
    LET t    == trimStart(s)
        neg  == t # <<>> /\ Head(t) = "-"
        body == IF t # <<>> /\ Head(t) \in {"-", "+"} THEN Tail(t) ELSE t
    IN  IF body = <<>> \/ ~IsDigit(Head(body))
        THEN [nan |-> TRUE, val |-> 0]
        ELSE [nan |-> FALSE,
              val |-> IF neg THEN 0 - digitsPrefix(body, 0)
                      ELSE digitsPrefix(body, 0)]

\* Mutant: the range test is inverted, so a saved port is never taken.
loadLastSuccessfulPort_inverted(file, cur) ==
    IF file.exists
    THEN LET savedPort == parseInt(trim(file.content))
         IN  IF ~savedPort.nan /\ (savedPort.val < PORT_MIN
                                   \/ savedPort.val > PORT_MAX)
             THEN savedPort.val
             ELSE cur
    ELSE cur

\* loadLastSuccessfulPort(): the value of currentPort after it.
loadLastSuccessfulPort(file, cur) ==
    IF file.exists
    THEN LET savedPort == parseInt(trim(file.content))
         IN  IF ~savedPort.nan /\ savedPort.val >= PORT_MIN
                /\ savedPort.val <= PORT_MAX
             THEN savedPort.val
             ELSE cur
    ELSE cur

\* saveSuccessfulPort(port): the file after it.
saveSuccessfulPort(port) == [exists |-> TRUE, content |-> toString(port)]

\* Contents active_port.txt can have when the first process starts.
InitialFiles ==
    {[exists |-> FALSE, content |-> <<>>]}
    \cup {[exists |-> TRUE, content |-> c] :
            c \in {toString(PORT_MIN), toString(PORT_MIN + 5), toString(PORT_MAX),
                   toString(PORT_MIN + 5) \o <<"\n">>, toString(PORT_MAX + 1),
                   <<"8", "0">>, <<>>, <<"x">>}}

NoBind == [port |-> 0, outcome |-> "none"]

\* The loop of createServer entered at candidate p: the next bind, or, past
\* the range, the 5 s timer that calls createServer again.
tryPort(p, retry) ==
    IF p <= PORT_MAX
    THEN /\ cs' = [pc |-> "binding", port |-> p, retry |-> retry]
         /\ server' = "binding"
         /\ attempts' = Append(attempts, p)
    ELSE /\ cs' = [pc |-> "retryWait", port |-> p, retry |-> retry]
         /\ UNCHANGED <<server, attempts>>

\* createServer(), called at startup or by the 5 s retry timer, up to its
\* first await.
CreateServer ==
    /\ running
    /\ cs.pc \in {"start", "retryWait"}
    /\ IF isShuttingDown
       THEN /\ cs' = [cs EXCEPT !.pc = "done"]
            /\ UNCHANGED <<currentPort, server, attempts>>
       ELSE /\ currentPort' = loadLastSuccessfulPort(portFile, currentPort)
            /\ attempts' = <<currentPort'>>
            /\ cs' = [pc |-> "binding", port |-> currentPort',
                      retry |-> cs.pc = "retryWait"]
            /\ server' = "binding"
    /\ UNCHANGED <<running, isShuttingDown, bridgeVars, svcVars, auxVars, portFile, lastBind,
                   starts, persisted, prevPersisted>>

\* 'listening' on the server being bound: the promise resolves, the port is
\* saved, setupServerHandlers runs and createServer returns.
BindListening ==
    /\ running
    /\ cs.pc = "binding" /\ server = "binding"
    /\ currentPort' = cs.port
    /\ portFile' = saveSuccessfulPort(cs.port)
    /\ persisted' = cs.port
    /\ server' = "listening"
    /\ cs' = [cs EXCEPT !.pc = "done"]
    /\ lastBind' = [port |-> cs.port, outcome |-> "listening"]
    /\ UNCHANGED <<running, isShuttingDown, bridgeVars, svcVars, auxVars, attempts, starts,
                   prevPersisted>>

\* 'error' with code EADDRINUSE: server.close(); the promise createServer
\* awaits is neither resolved nor rejected.
BindAddrInUse ==
    /\ running
    /\ cs.pc = "binding" /\ server = "binding"
    /\ server' = "closed"
    /\ lastBind' = [port |-> cs.port, outcome |-> "EADDRINUSE"]
    /\ UNCHANGED <<running, isShuttingDown, bridgeVars, svcVars, auxVars, cs, currentPort,
                   portFile, attempts, starts, persisted, prevPersisted>>

\* Mutant: the candidate is saved when its bind fails.
BindError_saves ==
    /\ running
    /\ cs.pc = "binding" /\ server = "binding"
    /\ server' = "failed"
    /\ cs' = [cs EXCEPT !.pc = "backoff"]
    /\ lastBind' = [port |-> cs.port, outcome |-> "EACCES"]
    /\ portFile' = saveSuccessfulPort(cs.port)
    /\ UNCHANGED <<running, isShuttingDown, bridgeVars, svcVars, auxVars, currentPort,
                   attempts, starts, persisted, prevPersisted>>

\* 'error' with another code: the promise rejects and the catch block starts
\* its 2 s wait.
BindError ==
    /\ running
    /\ cs.pc = "binding" /\ server = "binding"
    /\ server' = "failed"
    /\ cs' = [cs EXCEPT !.pc = "backoff"]
    /\ lastBind' = [port |-> cs.port, outcome |-> "EACCES"]
    /\ UNCHANGED <<running, isShuttingDown, bridgeVars, svcVars, auxVars, currentPort, portFile,
                   attempts, starts, persisted, prevPersisted>>

\* The 2 s wait ends: port++ and the loop goes on.
BackoffDone ==
    /\ running
    /\ cs.pc = "backoff"
    /\ tryPort(cs.port + 1, cs.retry)
    /\ UNCHANGED <<running, isShuttingDown, bridgeVars, svcVars, auxVars, currentPort, portFile,
                   lastBind, starts, persisted, prevPersisted>>

\* The process ends and a new one is started; active_port.txt stays.
ProcessStart ==
    /\ starts < MaxStarts
    /\ starts' = starts + 1
    /\ prevPersisted' = persisted
    /\ persisted' = 0
    /\ running' = TRUE
    /\ cs' = [pc |-> "start", port |-> DEFAULT_PORT, retry |-> FALSE]
    /\ currentPort' = DEFAULT_PORT
    /\ server' = "none"
    /\ attempts' = <<>>
    /\ lastBind' = NoBind
    /\ UNCHANGED <<isShuttingDown, bridgeVars, svcVars, auxVars, portFile>>

BridgeIdle ==
    /\ stdinOpen = TRUE
    /\ conns = {}
    /\ nextConn = 1
    /\ obsidianConnection = NoConn
    /\ pendingRequests = {}
    /\ timers = {}
    /\ nextRequestId = 1
    /\ calls = <<>>
    /\ requests = <<>>
    /\ stdout = <<>>
    /\ late = {}

InitPort ==
    /\ running = TRUE
    /\ isShuttingDown = FALSE
    /\ server = "none"
    /\ BridgeIdle
    /\ cs = [pc |-> "start", port |-> DEFAULT_PORT, retry |-> FALSE]
    /\ currentPort = DEFAULT_PORT
    /\ portFile \in InitialFiles
    /\ attempts = <<>>
    /\ lastBind = NoBind
    /\ starts = 1
    /\ persisted = 0
    /\ prevPersisted = 0
    /\ SvcIdle
    /\ AuxIdle

NextPort ==
    \/ CreateServer
    \/ BindListening
    \/ BindAddrInUse
    \/ BindError
    \/ BackoffDone
    \/ ProcessStart

SpecPort == InitPort /\ [][NextPort]_vars

\* Timers fire and every bind attempt gets its 'listening' or 'error' event.
FairSpecPort ==
    /\ SpecPort
    /\ WF_vars(CreateServer)
    /\ WF_vars(BackoffDone)
    /\ WF_vars(BindListening \/ BindAddrInUse \/ BindError)

\* ------------------------------------------------------------- supervisor
\* auto_service.js.  Time advances in steps of RESTART_DELAY; a timer whose
\* time is up fires before time advances again.
SvcPid   == 1000   \* process.pid of the Supervisor
StalePid == 999    \* a pid left in a pid file by an earlier instance

COOLDOWN_TICKS == RESTART_COOLDOWN \div RESTART_DELAY
AgeMax == COOLDOWN_TICKS + 1
HEALTH_TICKS == CHECK_INTERVAL \div RESTART_DELAY

ExitKinds == {"code", "SIGKILL", "SIGTERM", "SIGINT"}

bridgeSide == <<running, isShuttingDown, server, bridgeVars, portVars,
                auxVars>>

\* restartCount >= MAX_RESTARTS && (now - lastRestartTime) < RESTART_COOLDOWN
throttled(count, a) == count >= MAX_RESTARTS /\ a < COOLDOWN_TICKS

\* The exit handler's test for arming the 2 s restart timer.
restartsAfter(shutdown, kind) == ~shutdown /\ kind \notin {"SIGTERM", "SIGINT"}

\* process.stdin.pipe(bridge.stdin): lines waiting in the paused stdin go to
\* the new child.
pipeStdin == [i \in DOMAIN lineTo |-> IF lineTo[i] = 0 THEN 1 ELSE lineTo[i]]

\* startBridge() called with restartCount = count, the cooldown timers cd and
\* bridge.pid = bpf; assign: the caller stores the result in bridgeProcess.
StartBridge(assign, count, cd, bpf) ==
    IF shutdownRequested \/ throttled(count, age)
    THEN /\ cooldownTimers' = IF shutdownRequested THEN cd
                              ELSE Append(cd, COOLDOWN_TICKS)
         /\ bridgeProcess' = IF assign THEN NoChild ELSE bridgeProcess
         /\ bridgePidFile' = bpf
         /\ UNCHANGED <<alive, nextChild, lastSpawn, owed, lineTo>>
    ELSE \/ /\ nextChild <= MaxChildren      \* spawn succeeds
            /\ alive' = alive \cup {nextChild}
            /\ nextChild' = nextChild + 1
            /\ bridgePidFile' = nextChild
            /\ lineTo' = pipeStdin
            /\ bridgeProcess' = IF assign THEN nextChild ELSE bridgeProcess
            /\ lastSpawn' = "ok"
            /\ owed' = FALSE
            /\ cooldownTimers' = cd
         \/ /\ lastSpawn' = "failed"         \* spawn throws: logged, null
            /\ bridgeProcess' = IF assign THEN NoChild ELSE bridgeProcess
            /\ bridgePidFile' = bpf
            /\ cooldownTimers' = cd
            /\ UNCHANGED <<alive, nextChild, owed, lineTo>>

\* main(): cleanupExistingProcesses, createPidFile, startBridge,
\* startHealthCheck.
SvcMain ==
    /\ svcPc = "init"
    /\ killed' = killed
                 \cup (IF servicePidFile # 0 /\ servicePidFile # SvcPid
                       THEN {servicePidFile} ELSE {})
                 \cup (IF bridgePidFile # 0 THEN {bridgePidFile} ELSE {})
    /\ servicePidFile' = SvcPid
    /\ StartBridge(TRUE, restartCount, cooldownTimers, 0)
    /\ healthOn' = ~shutdownRequested
    /\ healthIn' = HEALTH_TICKS
    /\ svcPc' = "running"
    /\ UNCHANGED <<exitCode, shutdownRequested, restartCount, age,
                   restartTimers, sigtermSent, bridgeSide>>

\* bridge 'exit' of child c.
ChildExit(c, kind) ==
    /\ svcPc = "running"
    /\ c \in alive
    /\ alive' = alive \ {c}
    /\ restartCount' = restartCount + 1
    /\ age' = 0
    /\ restartTimers' = IF restartsAfter(shutdownRequested, kind)
                        THEN Append(restartTimers, 1)
                        ELSE restartTimers
    /\ owed' = (owed \/ c \notin sigtermSent)
    /\ UNCHANGED <<svcPc, exitCode, shutdownRequested, bridgeProcess, nextChild,
                   cooldownTimers, healthOn, healthIn, sigtermSent,
                   servicePidFile,
                   bridgePidFile, killed, lastSpawn, lineTo, bridgeSide>>

\* The 2 s timer of the exit handler: bridgeProcess = startBridge().
RestartTimer ==
    /\ svcPc = "running"
    /\ restartTimers # <<>> /\ Head(restartTimers) = 0
    /\ restartTimers' = Tail(restartTimers)
    /\ StartBridge(TRUE, restartCount, cooldownTimers, bridgePidFile)
    /\ UNCHANGED <<svcPc, exitCode, shutdownRequested, restartCount, age,
                   healthOn, healthIn, sigtermSent, servicePidFile, killed,
                   bridgeSide>>

\* The 60 s timer of the throttle: restartCount = 0; startBridge().
CooldownTimer ==
    /\ svcPc = "running"
    /\ cooldownTimers # <<>> /\ Head(cooldownTimers) = 0
    /\ restartCount' = 0
    /\ StartBridge(FALSE, 0, Tail(cooldownTimers), bridgePidFile)
    /\ UNCHANGED <<svcPc, exitCode, shutdownRequested, age, restartTimers,
                   healthOn, healthIn, sigtermSent, servicePidFile, killed,
                   bridgeSide>>

\* One run of the health-check interval callback.
HealthTick ==
    /\ svcPc = "running"
    /\ healthOn
    /\ healthIn = 0
    /\ healthIn' = HEALTH_TICKS
    /\ IF shutdownRequested
       THEN /\ healthOn' = FALSE
            /\ UNCHANGED <<bridgeProcess, alive, nextChild, cooldownTimers,
                           bridgePidFile, lastSpawn, owed, lineTo>>
       ELSE /\ healthOn' = healthOn
            /\ IF bridgeProcess # NoChild /\ bridgeProcess \notin alive
               THEN StartBridge(TRUE, restartCount, cooldownTimers, bridgePidFile)
               ELSE UNCHANGED <<bridgeProcess, alive, nextChild, cooldownTimers,
                                bridgePidFile, lastSpawn, owed, lineTo>>
    /\ UNCHANGED <<svcPc, exitCode, shutdownRequested, restartCount, age,
                   restartTimers, sigtermSent, servicePidFile, killed,
                   bridgeSide>>

\* RESTART_DELAY of time passes.
tickDown(ts) == [i \in DOMAIN ts |-> ts[i] - 1]
Tick ==
    /\ svcPc = "running"
    /\ \A i \in DOMAIN restartTimers : restartTimers[i] > 0
    /\ \A i \in DOMAIN cooldownTimers : cooldownTimers[i] > 0
    /\ healthOn => healthIn > 0
    /\ healthIn' = IF healthOn THEN healthIn - 1 ELSE healthIn
    /\ age' = IF age < AgeMax THEN age + 1 ELSE age
    /\ restartTimers' = tickDown(restartTimers)
    /\ cooldownTimers' = tickDown(cooldownTimers)
    /\ UNCHANGED <<svcPc, exitCode, shutdownRequested, restartCount,
                   bridgeProcess, alive, nextChild, healthOn, sigtermSent,
                   servicePidFile, bridgePidFile, killed, lastSpawn, owed,
                   lineTo, bridgeSide>>

\* A signal handler that marks the shutdown and then starts a bridge.
SvcSignal_restart ==
    /\ svcPc = "running"
    /\ nextChild <= MaxChildren
    /\ shutdownRequested' = TRUE
    /\ sigtermSent' = IF bridgeProcess # NoChild /\ bridgeProcess \in alive
                      THEN sigtermSent \cup {bridgeProcess}
                      ELSE sigtermSent
    /\ servicePidFile' = 0
    /\ bridgePidFile' = nextChild
    /\ alive' = alive \cup {nextChild}
    /\ bridgeProcess' = nextChild
    /\ nextChild' = nextChild + 1
    /\ svcPc' = "exited"
    /\ exitCode' = 0
    /\ restartTimers' = <<>>
    /\ cooldownTimers' = <<>>
    /\ healthOn' = FALSE
    /\ healthIn' = 0
    /\ age' = AgeMax
    /\ UNCHANGED <<restartCount, killed, lastSpawn, owed, lineTo, bridgeSide>>

\* SIGINT / SIGTERM: cleanup() and process.exit(0).  With the process its
\* timers, its interval and its clock readings are gone.
SvcSignal ==
    /\ svcPc = "running"
    /\ shutdownRequested' = TRUE
    /\ sigtermSent' = IF bridgeProcess # NoChild /\ bridgeProcess \in alive
                      THEN sigtermSent \cup {bridgeProcess}
                      ELSE sigtermSent
    /\ servicePidFile' = 0
    /\ bridgePidFile' = 0
    /\ svcPc' = "exited"
    /\ exitCode' = 0
    /\ restartTimers' = <<>>
    /\ cooldownTimers' = <<>>
    /\ healthOn' = FALSE
    /\ healthIn' = 0
    /\ age' = AgeMax
    /\ UNCHANGED <<restartCount, bridgeProcess, alive, nextChild, killed,
                   lastSpawn, owed, lineTo, bridgeSide>>

\* The client writes a line to the Supervisor's stdin, which is piped to the
\* stdin of every child whose pipe is in place.
ClientLine ==
    /\ svcPc = "running"
    /\ Len(lineTo) < MaxLines
    /\ lineTo' = Append(lineTo, Cardinality(alive))
    /\ UNCHANGED <<svcPc, exitCode, shutdownRequested, restartCount, age,
                   bridgeProcess, alive, nextChild, restartTimers,
                   cooldownTimers, healthOn, healthIn, sigtermSent,
                   servicePidFile,
                   bridgePidFile, killed, lastSpawn, owed, bridgeSide>>

\* service.pid and bridge.pid as an earlier instance can have left them: none,
\* both stale, or a pid that the operating system has given out again, to
\* this Supervisor.
InitialPidFiles ==
    {<<0, 0>>, <<StalePid, StalePid>>, <<SvcPid, 0>>, <<StalePid, SvcPid>>}

InitSvc ==
    /\ running = TRUE
    /\ isShuttingDown = FALSE
    /\ server = "none"
    /\ BridgeIdle
    /\ PortIdle
    /\ AuxIdle
    /\ svcPc = "init"
    /\ exitCode = -1
    /\ shutdownRequested = FALSE
    /\ restartCount = 0
    /\ age = AgeMax
    /\ bridgeProcess = NoChild
    /\ alive = {}
    /\ nextChild = 1
    /\ restartTimers = <<>>
    /\ cooldownTimers = <<>>
    /\ healthOn = FALSE
    /\ healthIn = 0
    /\ sigtermSent = {}
    /\ \E pf \in InitialPidFiles :
          servicePidFile = pf[1] /\ bridgePidFile = pf[2]
    /\ killed = {}
    /\ lastSpawn = "none"
    /\ owed = FALSE
    /\ lineTo = <<>>

NextSvc ==
    \/ SvcMain
    \/ \E c \in 1..MaxChildren, k \in ExitKinds : ChildExit(c, k)
    \/ RestartTimer
    \/ CooldownTimer
    \/ HealthTick
    \/ Tick
    \/ SvcSignal
    \/ ClientLine

SpecSvc == InitSvc /\ [][NextSvc]_vars

\* Time passes and timers fire; children, signals and the client are free.
FairSpecSvc ==
    /\ SpecSvc
    /\ WF_vars(Tick)
    /\ WF_vars(RestartTimer)
    /\ WF_vars(CooldownTimer)
    /\ WF_vars(HealthTick)

\* ================================================================ claims
FrameIndexes(r) == {i \in 1..Len(stdout) : stdout[i].req = r}
FrameCount(r) == Cardinality(FrameIndexes(r))

\* Request r waits for the promise of a forwarded call.
Awaiting(r) == \E id \in DOMAIN calls : calls[id].req = r /\ calls[id].promise = "pending"

\* C1: every internal id is resolved at most once; an id that left the table
\* (timeout, answer, close) is not in pendingRequests, so a later peer frame
\* naming it is dropped: no second resolve/reject call, at most one frame.
C1_ResolvedAtMostOnce ==
    \A id \in DOMAIN calls :
        /\ calls[id].n <= 1
        /\ calls[id].promise # "pending" => id \notin pendingRequests
        /\ FrameCount(calls[id].req) <= 1
        /\ id \in late => calls[id].n = 1 /\ FrameCount(calls[id].req) = 1

\* A peer frame named id 1 after the timer had rejected it.
C1_Witness ==
    \E id \in late : calls[id].why = "timeout" /\ calls[id].n = 1

\* C2: a request line never has two frames on stdout, and has exactly one as
\* soon as its handling is over (it no longer waits for the peer).
C2_OneFramePerRequest ==
    \A r \in 1..Len(requests) :
        /\ FrameCount(r) <= 1
        /\ ~Awaiting(r) => FrameCount(r) = 1

\* A tools/call answered by the peer, next to a request answered locally.
C2_Witness ==
    /\ \E id \in DOMAIN calls :
          /\ calls[id].why = "result"
          /\ FrameCount(calls[id].req) = 1
    /\ \E r \in 1..Len(requests) :
          requests[r].method = "tools/list" /\ FrameCount(r) = 1

\* C3: every request that reached the translator gets a frame on stdout
\* unless the process exits.
C3_EveryRequestAnswered ==
    \A r \in 1..MaxRequests :
        [](Len(requests) >= r => <>(FrameCount(r) >= 1 \/ ~running))

\* C4: a tools/call handled while obsidianConnection is null appends one
\* error frame for it and leaves pendingRequests as it was.
C4_NotConnectedCall ==
    [][(/\ Len(requests') = Len(requests) + 1
        /\ requests'[Len(requests')].method = "tools/call"
        /\ obsidianConnection = NoConn)
       => (/\ pendingRequests' = pendingRequests
           /\ Len(stdout') = Len(stdout) + 1
           /\ stdout'[Len(stdout')].req = Len(requests')
           /\ stdout'[Len(stdout')].kind = "error"
           /\ stdout'[Len(stdout')].code = ERROR_CODE)]_vars

\* A tools/call was refused for want of a peer.
C4_Witness ==
    \E i \in 1..Len(stdout) :
        /\ requests[stdout[i].req].method = "tools/call"
        /\ requests[stdout[i].req].hasParams
        /\ stdout[i].message = "Not connected to Obsidian plugin"
        /\ calls = <<>>

\* C5: the close callback of a peer socket rejects every request pending at
\* that moment with the connection-closed error and leaves the table empty.
C5_CloseRejectsAll ==
    [][(conns' # conns /\ conns' \subseteq conns)
       => (/\ pendingRequests' = {}
           /\ \A id \in pendingRequests :
                 /\ calls'[id].promise = "rejected"
                 /\ calls'[id].why = "closed"
                 /\ \E i \in (Len(stdout) + 1)..Len(stdout') :
                       /\ stdout'[i].req = calls[id].req
                       /\ stdout'[i].kind = "error"
                       /\ stdout'[i].message = "WebSocket connection closed")]_vars

\* Two concurrent pending calls were rejected by one close.
C5_Witness ==
    /\ pendingRequests = {}
    /\ Cardinality({id \in DOMAIN calls : calls[id].why = "closed"}) >= 2

\* C6: the frame answering a tools/call carries the identifier of the
\* request line, whatever identifier the caller supplied.
C6_CallerIdPreserved ==
    \A i \in 1..Len(stdout) :
        requests[stdout[i].req].method = "tools/call"
            => stdout[i].id = requests[stdout[i].req].id

\* The timer ended the call of id: entry gone, timeout error written.
TimedOut(id) ==
    /\ id \in DOMAIN calls
    /\ calls[id].why = "timeout"
    /\ id \notin pendingRequests
    /\ \E i \in FrameIndexes(calls[id].req) :
          /\ stdout[i].kind = "error"
          /\ stdout[i].message = "Request timed out after 15 seconds"

\* C7: a forwarded tools/call that the peer neither answers nor ends by
\* closing is ended by its 15 s timer, unless the process exits.
C7_TimeoutEndsSilentCall ==
    \A id \in 1..MaxRequests :
        []((id \in DOMAIN calls /\ calls[id].promise = "pending")
            => <>(\/ TimedOut(id)
                  \/ (id \in DOMAIN calls
                      /\ calls[id].why \in {"result", "peerError", "closed"})
                  \/ ~running))

\* C8: after address-in-use on a candidate below the upper bound, createServer
\* goes on to bind the next candidate (unless the process is replaced).
C8_AdvancesOnAddrInUse ==
    \A p \in PORT_MIN..(PORT_MAX - 1) :
        [](lastBind = [port |-> p, outcome |-> "EADDRINUSE"]
            => <>(\/ (cs.port = p + 1 /\ p + 1 \in {attempts[i] : i \in 1..Len(attempts)})
                  \/ lastBind = NoBind))

\* C9: a retry sweep that ran through the range without binding has tried
\* every port from 27125 to 27135.
C9_RetrySweepIsFull ==
    (cs.retry /\ cs.pc = "retryWait")
        => \A p \in PORT_MIN..PORT_MAX : \E i \in 1..Len(attempts) : attempts[i] = p

\* C10: a start that follows one which bound and saved port p tries p first,
\* and when that bind succeeds p is the only port it tried.
C10_PersistedPortFirst ==
    (prevPersisted # 0 /\ attempts # <<>>)
        => /\ attempts[1] = prevPersisted
           /\ (server = "listening" /\ lastBind.port = prevPersisted)
                 => (currentPort = prevPersisted /\ attempts = <<prevPersisted>>)

\* The second start is listening on the port the first one saved, which is
\* not the default port.
C10_Witness ==
    /\ starts = 2
    /\ prevPersisted # 0 /\ prevPersisted # DEFAULT_PORT
    /\ server = "listening"
    /\ currentPort = prevPersisted
    /\ attempts = <<prevPersisted>>

\* C11: active_port.txt changes only in the step in which a bind succeeds,
\* and then holds the port just bound; failed attempts leave it as it was.
C11_SavedOnlyOnBind ==
    [][portFile' # portFile
       => (/\ server = "binding" /\ server' = "listening"
           /\ lastBind' = [port |-> cs.port, outcome |-> "listening"]
           /\ portFile'.exists
           /\ ~parseInt(portFile'.content).nan
           /\ parseInt(portFile'.content).val = cs.port
           /\ currentPort' = cs.port)]_vars

\* A bind succeeded after two failed candidates and overwrote an older value.
C11_Witness ==
    /\ server = "listening"
    /\ Len(attempts) >= 3
    /\ portFile = [exists |-> TRUE, content |-> toString(currentPort)]
    /\ currentPort = attempts[Len(attempts)]
    /\ currentPort # attempts[1]

\* C12: at most one peer socket is open at any time.
C12_AtMostOnePeer == Cardinality(conns) <= 1

\* C13: a peer socket does not stay open for ever on its own: one that is
\* silent is terminated by the liveness sweep (or the process exits).
C13_SilentPeerTerminated ==
    \A c \in 1..MaxConns : [](c \in conns => <>(c \notin conns \/ ~running))

\* C14: once shutdownRequested is true no child bridge is spawned again: a
\* step that ends with shutdownRequested set starts no child, whichever
\* event it is.
C14_NoSpawnAfterShutdown ==
    [][shutdownRequested'
       => (nextChild' = nextChild /\ alive' \subseteq alive)]_vars

\* Shutdown was requested after a crash, while the crashed child's
\* replacement was still due and another child was alive.
C14_Witness ==
    /\ shutdownRequested
    /\ restartCount >= 1
    /\ bridgeProcess # NoChild /\ bridgeProcess \notin alive
    /\ alive # {}

\* C15: of the crashes inside one 60 s window, restarts 1 to MAX_RESTARTS are
\* performed when their 2 s timer fires; none of them is deferred to the
\* cooldown timer.  The crashes come one at a time: one timer pending, no
\* child alive.
C15_FirstFiveNotDeferred ==
    [][(/\ Len(restartTimers) = 1
        /\ restartTimers' = <<>>
        /\ alive = {}
        /\ restartCount \in 1..MAX_RESTARTS)
       => cooldownTimers' = cooldownTimers]_vars

\* C16: restartCount is 0 again once more than RESTART_COOLDOWN has passed
\* since the last child exit, the replacement child running all that time.
C16_CountResetsAfterQuietWindow ==
    (/\ svcPc = "running"
     /\ age > COOLDOWN_TICKS
     /\ lastSpawn = "ok"
     /\ bridgeProcess \in alive)
    => restartCount = 0

\* C17: after a child exit the Supervisor did not cause, a new child is
\* eventually started, unless a shutdown is requested or the spawn itself
\* fails.
C17_ExitedChildReplaced ==
    [](owed => <>(~owed \/ svcPc = "exited" \/ lastSpawn = "failed"))

\* C18: the step that handles SIGINT or SIGTERM sets shutdownRequested, sends
\* SIGTERM to every child that is alive, removes service.pid and bridge.pid
\* and exits with code 0.
C18_SignalStopsEveryChild ==
    [][(svcPc = "running" /\ svcPc' = "exited")
       => (/\ shutdownRequested'
           /\ alive \subseteq sigtermSent'
           /\ servicePidFile' = 0
           /\ bridgePidFile' = 0
           /\ exitCode' = 0)]_vars

\* C19: every line the client writes is delivered to at most one child, once.
C19_LineDeliveredOnce ==
    \A i \in DOMAIN lineTo : lineTo[i] <= 1

\* C20: when the child cannot be spawned the Supervisor has exited with
\* code 1.
C20_SpawnFailureExits ==
    lastSpawn = "failed" => (svcPc = "exited" /\ exitCode = 1)

\* C24: a tools/list line is answered in the step that reads it, peer or no
\* peer: one result frame with the three descriptors and the request's own
\* identifier; nothing is forwarded and the table and its timers are as before.
C24_ToolsListLocal ==
    [][(/\ Len(requests') = Len(requests) + 1
        /\ requests'[Len(requests')].method = "tools/list")
       => (/\ stdout' = Append(stdout,
                  [req |-> Len(requests'),
                   id |-> requests'[Len(requests')].id,
                   kind |-> "result",
                   result |-> <<"query_elements", "get_computed_styles",
                                "get_console_logs">>,
                   code |-> 0, message |-> ""])
           /\ calls' = calls
           /\ pendingRequests' = pendingRequests
           /\ timers' = timers
           /\ nextRequestId' = nextRequestId)]_vars

\* tools/list was answered while a peer was connected and a forwarded call
\* was pending, and it carried a falsy identifier.
C24_Witness ==
    \E r \in 1..Len(requests) :
        /\ requests[r].method = "tools/list"
        /\ requests[r].id = "0"
        /\ FrameCount(r) = 1
        /\ obsidianConnection # NoConn
        /\ pendingRequests # {}

\* C25: the frame of a forwarded call is written in the step in which the
\* peer's message for it arrives, at the end of stdout, so frames follow the
\* order of the peer's messages and not the order of the requests.
C25_AnsweredInArrivalOrder ==
    [][\A id \in DOMAIN calls :
          (/\ calls[id].promise = "pending"
           /\ calls'[id].why \in {"result", "peerError"})
          => (/\ Len(stdout') = Len(stdout) + 1
              /\ SubSeq(stdout', 1, Len(stdout)) = stdout
              /\ stdout'[Len(stdout')].req = calls[id].req
              /\ stdout'[Len(stdout')].kind =
                    (IF calls'[id].why = "result" THEN "result" ELSE "error"))]_vars

\* Requests A then B were forwarded; the peer answered B, then A; B's frame
\* is before A's.
C25_Witness ==
    /\ Len(calls) = 2
    /\ calls[1].why = "result" /\ calls[2].why = "result"
    /\ calls[1].req < calls[2].req
    /\ \E i, j \in 1..Len(stdout) :
          /\ i < j
          /\ stdout[i].req = calls[2].req
          /\ stdout[j].req = calls[1].req

\* C26: the timeout of one pending request removes and rejects that request
\* only: the other entries, their timers and promises and the peer connection
\* are as before.
C26_TimeoutTouchesOneRequest ==
    [][\A id \in DOMAIN calls :
          (calls[id].promise = "pending" /\ calls'[id].why = "timeout")
          => (/\ pendingRequests' = pendingRequests \ {id}
              /\ timers' = timers \ {id}
              /\ \A o \in DOMAIN calls : o # id => calls'[o] = calls[o]
              /\ obsidianConnection' = obsidianConnection
              /\ conns' = conns)]_vars

\* Call 1 timed out while call 2 was pending; a later peer message resolved
\* call 2.
C26_Witness ==
    /\ Len(calls) = 2
    /\ calls[1].why = "timeout"
    /\ calls[2].why = "result"
    /\ calls[2].conn # NoConn
    /\ \E i, j \in 1..Len(stdout) :
          /\ i < j
          /\ stdout[i].req = calls[1].req
          /\ stdout[j].req = calls[2].req

\* C27: when the 2 s wait after a bind failure other than address-in-use
\* ends, createServer binds the same candidate again.
C27_RetriesSameCandidate ==
    [][(cs.pc = "backoff" /\ cs'.pc # "backoff" /\ starts' = starts)
       => (/\ cs'.pc = "binding"
           /\ cs'.port = cs.port
           /\ attempts' = Append(attempts, cs.port))]_vars

\* C28: launch of auto_service.js: the processes named by the stale pid files
\* are signalled, never the Supervisor itself, the stale files are gone,
\* service.pid holds the Supervisor's pid and bridge.pid, if any, the pid of
\* the first child.
C28_LaunchOrder ==
    [][(svcPc = "init" /\ svcPc' = "running")
       => (/\ SvcPid \notin killed'
           /\ killed' = {servicePidFile, bridgePidFile} \ {0, SvcPid}
           /\ servicePidFile' = SvcPid
           /\ bridgePidFile' \in {0} \cup alive')]_vars

\* ------------------------------------------------ bridge: stdin framing
\* The 'data' handler of process.stdin on the characters it receives.  The
\* peer is not connected here, so every line is answered at once.
MaxChunks == 2   \* 'data' events in one run

NL == "\n"

\* {"id":7,"method":"tools/list"}
L_LIST ==
    <<"{", "\"", "i", "d", "\"", ":", "7", ",", "\"", "m", "e", "t", "h",
      "o", "d", "\"", ":", "\"", "t", "o", "o", "l", "s", "/", "l", "i",
      "s", "t", "\"", "}">>

\* {"id":7,"method":"x"}: a method processRequest does not know
L_BOGUS ==
    <<"{", "\"", "i", "d", "\"", ":", "7", ",", "\"", "m", "e", "t", "h",
      "o", "d", "\"", ":", "\"", "x", "\"", "}">>

\* {}: an object with neither id nor method
L_OBJ == <<"{", "}">>

\* null and 7: JSON values that are not objects
L_NULL == <<"n", "u", "l", "l">>
L_NUM  == <<"7">>

\* { alone is not JSON, and neither is the empty line
L_BAD   == <<"{">>
L_EMPTY == <<>>

StdinLineTexts == {L_LIST, L_BOGUS, L_OBJ, L_NULL, L_NUM, L_BAD, L_EMPTY}

\* What may follow the last newline: nothing, or the start of a request.
StdinTails == {<<>>, SubSeq(L_LIST, 1, 3)}

\* One or two lines, each ended by a newline, then a tail.
StdinTexts ==
    {a \o <<NL>> \o t : a \in StdinLineTexts, t \in StdinTails}
    \cup {a \o <<NL>> \o b \o <<NL>> \o t :
            a \in StdinLineTexts, b \in StdinLineTexts, t \in StdinTails}

\* JSON number without sign, fraction or exponent.
IsJsonNumber(line) ==
    /\ line # <<>>
    /\ \A i \in 1..Len(line) : IsDigit(line[i])
    /\ Len(line) > 1 => line[1] # "0"

\* JSON.parse(line), with the fields of the value that the handlers read;
\* a missing field reads as undefined.
jsonParse(line) ==
    CASE line = L_LIST ->
            [type |-> "object", method |-> "tools/list", id |-> "7",
             hasParams |-> FALSE]
      [] line = L_BOGUS ->
            [type |-> "object", method |-> "x", id |-> "7",
             hasParams |-> FALSE]
      [] line = L_OBJ ->
            [type |-> "object", method |-> "undefined", id |-> "undefined",
             hasParams |-> FALSE]
      [] line = L_NULL ->
            [type |-> "null", method |-> "", id |-> "", hasParams |-> FALSE]
      [] IsJsonNumber(line) ->
            [type |-> "number", method |-> "undefined", id |-> "undefined",
             hasParams |-> FALSE]
      [] OTHER ->
            [type |-> "SyntaxError", method |-> "", id |-> "",
             hasParams |-> FALSE]

\* inputBuffer.indexOf('\n'), 1-based; 0 when there is none.
indexOfNewline(buf) ==
    IF \E i \in 1..Len(buf) : buf[i] = NL
    THEN CHOOSE i \in 1..Len(buf) :
            buf[i] = NL /\ \A j \in 1..(i - 1) : buf[j] # NL
    ELSE 0

\* Mutant: the chunk replaces what was kept.
appendChunk_replace(buf, chunk) == chunk

\* inputBuffer += chunk
appendChunk(buf, chunk) == buf \o chunk

\* The while loop: the lines it cuts out and what stays in inputBuffer.
RECURSIVE drainLoop(_)
drainLoop(buf) ==
    LET newlineIndex == indexOfNewline(buf)
    IN IF newlineIndex = 0
       THEN [lines |-> <<>>, buffer |-> buf]
       ELSE LET line == SubSeq(buf, 1, newlineIndex - 1)
                d    == drainLoop(SubSeq(buf, newlineIndex + 1, Len(buf)))
            IN [lines |-> <<line>> \o d.lines, buffer |-> d.buffer]

\* Mutant: a line that does not parse is answered with an error frame.
parseErrorFrames_reply(r, line) == <<sendMcpError(r, "null", "Parse error")>>

\* The catch around JSON.parse: the error is logged.
parseErrorFrames(r, line) == <<>>

\* Frames written for line number r.  On null, reading message.method
\* raises in processRequest, reading message.id raises in the catch block of
\* handleMcpRequest and again in the .catch callback: the rejection ends in
\* the unhandledRejection handler, which logs.
lineFrames(r, line) ==
    LET message == jsonParse(line)
    IN CASE message.type = "SyntaxError" -> parseErrorFrames(r, line)
         [] message.type = "null" -> <<>>
         [] OTHER ->
              LET pr == processRequest(message, obsidianConnection)
              IN IF pr.type = "throw"
                 THEN handleCatch(r, message, pr.error)
                 ELSE handleReturn(r, message, pr)

RECURSIVE framesOf(_, _)
framesOf(lines, n) ==
    IF lines = <<>> THEN <<>>
    ELSE lineFrames(n + 1, Head(lines)) \o framesOf(Tail(lines), n + 1)

\* process.stdin 'data' with the next k characters of the input.
StdinChunk(k) ==
    /\ running /\ stdinOpen
    /\ chunks < MaxChunks
    /\ k \in 1..Len(stdinRest)
    /\ LET chunk == SubSeq(stdinRest, 1, k)
           d     == drainLoop(appendChunk(inputBuffer, chunk))
           n     == Len(stdinLines)
       IN /\ stdinRest' = SubSeq(stdinRest, k + 1, Len(stdinRest))
          /\ inputBuffer' = d.buffer
          /\ stdinLines' = stdinLines \o
                [i \in 1..Len(d.lines) |->
                    [text |-> d.lines[i], chunk |-> chunks + 1,
                     split |-> (i = 1 /\ inputBuffer # <<>>)]]
          /\ stdinOut' = stdinOut \o framesOf(d.lines, n)
          /\ chunks' = chunks + 1
    /\ UNCHANGED <<stdinText, running, isShuttingDown, server, bridgeVars,
                   portVars, svcVars, sweepVars, dedupVars,
                   moreVars>>

InitStdin ==
    /\ running = TRUE
    /\ isShuttingDown = FALSE
    /\ server = "listening"
    /\ BridgeIdle
    /\ PortIdle
    /\ SvcIdle
    /\ SweepIdle
    /\ DedupIdle
    /\ MoreIdle
    /\ stdinText \in StdinTexts
    /\ stdinRest = stdinText
    /\ inputBuffer = <<>>
    /\ stdinLines = <<>>
    /\ stdinOut = <<>>
    /\ chunks = 0

NextStdin == \E k \in 1..Len(stdinRest) : StdinChunk(k)

SpecStdin == InitStdin /\ [][NextStdin]_vars

\* ---------------------------------------------------- claims C21..C23
\* The input that has arrived, and its lines by the positions of its newlines.
Delivered == SubSeq(stdinText, 1, Len(stdinText) - Len(stdinRest))
NewlinesIn(t) == {i \in 1..Len(t) : t[i] = NL}
LineCount(t) == Cardinality(NewlinesIn(t))
NewlineNo(t, k) ==
    IF k = 0 THEN 0
    ELSE CHOOSE i \in NewlinesIn(t) :
            Cardinality({j \in NewlinesIn(t) : j <= i}) = k
LineNo(t, k) == SubSeq(t, NewlineNo(t, k - 1) + 1, NewlineNo(t, k) - 1)
TailOf(t) == SubSeq(t, NewlineNo(t, LineCount(t)) + 1, Len(t))
StdinFrames(r) == {i \in 1..Len(stdinOut) : stdinOut[i].req = r}

\* C21: a line that is not valid JSON gets no frame and does not stop the
\* process; every request line that arrived after it, in the same chunk or a
\* later one, is parsed and answered with one frame.
C21_BadLineIsSkipped ==
    /\ running
    /\ \A k \in 1..LineCount(Delivered) :
          LineNo(Delivered, k) \in {L_BAD, L_EMPTY}
          => /\ StdinFrames(k) = {}
             /\ \A j \in (k + 1)..LineCount(Delivered) :
                   LineNo(Delivered, j) \in {L_LIST, L_BOGUS}
                   => /\ j <= Len(stdinLines)
                      /\ stdinLines[j].text = LineNo(Delivered, j)
                      /\ Cardinality(StdinFrames(j)) = 1
                      /\ \A i \in StdinFrames(j) : stdinOut[i].id = "7"

\* An unparsable line and, in the same chunk, a tools/list line answered
\* with the catalog.
C21_Witness ==
    /\ running
    /\ Len(stdinLines) = 2
    /\ stdinLines[1].text = L_BAD
    /\ stdinLines[2].text = L_LIST
    /\ stdinLines[1].chunk = stdinLines[2].chunk
    /\ StdinFrames(1) = {}
    /\ \E i \in StdinFrames(2) :
          stdinOut[i].kind = "result" /\ stdinOut[i].result = TOOLS

\* C22: every line that parses and whose handling raises (unknown method, a
\* value that is not an object) is answered with exactly one error frame of
\* code -32603 that carries the identifier of the line, and the process
\* keeps running.
C22_EveryExceptionBecomesErrorFrame ==
    /\ running
    /\ \A r \in 1..Len(stdinLines) :
          stdinLines[r].text \in {L_BOGUS, L_OBJ, L_NULL, L_NUM}
          => /\ Cardinality(StdinFrames(r)) = 1
             /\ \A i \in StdinFrames(r) :
                   /\ stdinOut[i].kind = "error"
                   /\ stdinOut[i].code = -32603
                   /\ stdinLines[r].text = L_BOGUS => stdinOut[i].id = "7"

\* C23: the lines handled, their frames and the kept remainder are those of
\* the characters that arrived, however they were cut into chunks: each
\* complete line is handled once, the incomplete tail stays in inputBuffer.
C23_ChunkingIsInvisible ==
    /\ Len(stdinLines) = LineCount(Delivered)
    /\ \A k \in 1..Len(stdinLines) : stdinLines[k].text = LineNo(Delivered, k)
    /\ inputBuffer = TailOf(Delivered)
    /\ stdinOut = framesOf([k \in 1..LineCount(Delivered) |->
                               LineNo(Delivered, k)], 0)

\* A tools/list line that arrived in two pieces was answered once, and the
\* start of the next line waits in inputBuffer.
C23_Witness ==
    /\ chunks = 2
    /\ Len(stdinLines) = 1
    /\ stdinLines[1].text = L_LIST
    /\ stdinLines[1].split
    /\ Cardinality(StdinFrames(1)) = 1
    /\ inputBuffer = SubSeq(L_LIST, 1, 3)

\* ------------------------------------------- legacy bridge.js: the sweep
\* The interval set in the listening callback of createServer, the
\* 'connection' handler and the 'pong' handler it installs on a socket.
MaxPeers  == 2   \* sockets the server accepts in one run
MaxSweeps == 4   \* runs of the interval callback in one run

\* Mutant: the sweep pings without lowering the flag.
sweepClient_keepsFlag(c, flag, pings) ==
    IF flag[c] = FALSE
    THEN [isAlive |-> flag[c], pingsOut |-> pings[c], terminate |-> TRUE]
    ELSE [isAlive |-> flag[c], pingsOut |-> pings[c] + 1, terminate |-> FALSE]

\* The body of forEach for one socket of server.clients.
sweepClient(c, flag, pings) ==
    IF flag[c] = FALSE
    THEN [isAlive |-> flag[c], pingsOut |-> pings[c], terminate |-> TRUE]
    ELSE [isAlive |-> FALSE, pingsOut |-> pings[c] + 1, terminate |-> FALSE]

\* server 'connection': ws.isAlive = true, and the socket joins
\* server.clients.  A socket it supersedes stays there until it has closed.
SweepConnect ==
    /\ running /\ server = "listening"
    /\ nextClient <= MaxPeers
    /\ clients' = clients \cup {nextClient}
    /\ isAlive' = Append(isAlive, TRUE)
    /\ pingsOut' = Append(pingsOut, 0)
    /\ lastPong' = Append(lastPong, sweeps)
    /\ terminatedAt' = Append(terminatedAt, 0)
    /\ nextClient' = nextClient + 1
    /\ UNCHANGED <<terminated, sweeps, running, isShuttingDown, server,
                   bridgeVars, portVars, svcVars, stdinVars, dedupVars,
                   moreVars>>

\* The interval callback, every 5 s.
SweepTick ==
    /\ running /\ server = "listening"
    /\ sweeps < MaxSweeps
    /\ LET s(c) == sweepClient(c, isAlive, pingsOut)
           gone == {c \in clients : s(c).terminate}
       IN /\ isAlive' = [c \in DOMAIN isAlive |->
                            IF c \in clients THEN s(c).isAlive ELSE isAlive[c]]
          /\ pingsOut' = [c \in DOMAIN pingsOut |->
                            IF c \in clients THEN s(c).pingsOut ELSE pingsOut[c]]
          /\ terminated' = terminated \cup gone
          /\ terminatedAt' = [c \in DOMAIN terminatedAt |->
                                IF c \in gone \ terminated THEN sweeps + 1
                                ELSE terminatedAt[c]]
    /\ sweeps' = sweeps + 1
    /\ UNCHANGED <<clients, lastPong, nextClient, running, isShuttingDown,
                   server, bridgeVars, portVars, svcVars, stdinVars, dedupVars,
                   moreVars>>

\* ws 'pong': the peer answered a ping.
SweepPong(c) ==
    /\ running
    /\ c \in clients \ terminated
    /\ pingsOut[c] > 0
    /\ isAlive' = [isAlive EXCEPT ![c] = TRUE]
    /\ pingsOut' = [pingsOut EXCEPT ![c] = @ - 1]
    /\ lastPong' = [lastPong EXCEPT ![c] = sweeps]
    /\ UNCHANGED <<clients, terminated, terminatedAt, nextClient, sweeps,
                   running, isShuttingDown, server, bridgeVars, portVars,
                   svcVars, stdinVars, dedupVars,
                   moreVars>>

\* ws 'close', after terminate() or because the peer went away: the socket
\* leaves server.clients.
SweepClose(c) ==
    /\ running
    /\ c \in clients
    /\ clients' = clients \ {c}
    /\ UNCHANGED <<isAlive, pingsOut, terminated, lastPong, terminatedAt,
                   nextClient, sweeps, running, isShuttingDown, server,
                   bridgeVars, portVars, svcVars, stdinVars, dedupVars,
                   moreVars>>

InitSweep ==
    /\ running = TRUE
    /\ isShuttingDown = FALSE
    /\ server = "listening"
    /\ BridgeIdle
    /\ PortIdle
    /\ SvcIdle
    /\ AuxIdle

NextSweep ==
    \/ SweepConnect
    \/ SweepTick
    \/ \E c \in 1..MaxPeers : SweepPong(c)
    \/ \E c \in 1..MaxPeers : SweepClose(c)

SpecSweep == InitSweep /\ [][NextSweep]_vars

\* C29: a sweep terminates exactly the sockets whose flag is false and, for
\* the others, lowers the flag and sends a ping; a pong raises the flag.  So
\* a peer that answered since the previous sweep is not terminated, and a
\* silent peer is terminated at the second sweep after its last pong (or
\* after it connected).
C29_SweepTerminatesSilentPeers ==
    [][/\ sweeps' = sweeps + 1
          => \A c \in clients :
                IF isAlive[c] = FALSE
                THEN c \in terminated'
                ELSE /\ c \notin terminated'
                     /\ isAlive'[c] = FALSE
                     /\ pingsOut'[c] = pingsOut[c] + 1
       /\ \A c \in clients : pingsOut'[c] < pingsOut[c] => isAlive'[c] = TRUE
       /\ \A c \in clients : (sweeps' = sweeps + 1 /\ lastPong[c] = sweeps)
                               => c \notin terminated'
       /\ \A c \in terminated' \ terminated : sweeps' = lastPong[c] + 2
       /\ \A c \in clients' \ terminated' : sweeps' - lastPong'[c] <= 1]_vars

\* After four sweeps the peer that answered each ping is still connected,
\* and the peer that answered none was terminated at the second sweep.
C29_Witness ==
    /\ sweeps = 4
    /\ 1 \in clients \ terminated
    /\ lastPong[1] = 3
    /\ 2 \in terminated
    /\ lastPong[2] = 0
    /\ terminatedAt[2] = 2

\* ------------------------------- legacy service.js: responses of the bridge
\* The 'data' handler of bridge.stdout on whole response lines, and the
\* callback of process.stdout.write, which Node runs after the handler
\* returned.
MaxDataEvents == 2   \* 'data' events of bridge.stdout in one run
MaxChunkLines == 2   \* response lines in one chunk

\* Lines the bridge writes: responses with id 1 or 2, and a line that fails
\* the validation (no id field).
ResponseLines ==
    {[id |-> 1, valid |-> TRUE], [id |-> 2, valid |-> TRUE],
     [id |-> 0, valid |-> FALSE]}

ResponseChunks ==
    UNION {[1..n -> ResponseLines] : n \in 1..MaxChunkLines}

\* The while loop with the set as it is when the event arrives: the lines
\* it writes and what it leaves in bridgeOutputBuffer.  Each return leaves
\* the handler after the line was sliced off.
RECURSIVE forwardLoop(_, _)
forwardLoop(buf, sent) ==
    IF buf = <<>> THEN [written |-> <<>>, buffer |-> <<>>]
    ELSE LET response == Head(buf)
         IN IF ~response.valid \/ response.id \in sent
            THEN [written |-> <<>>, buffer |-> Tail(buf)]
            ELSE LET d == forwardLoop(Tail(buf), sent)
                 IN [written |-> <<response>> \o d.written,
                     buffer |-> d.buffer]

\* bridge.stdout 'data'
BridgeStdoutData(chunk) ==
    /\ running
    /\ dataEvents < MaxDataEvents
    /\ LET d == forwardLoop(bridgeOutputBuffer \o chunk, responsesSent)
       IN /\ bridgeOutputBuffer' = d.buffer
          /\ clientStdout' = clientStdout \o d.written
          /\ writeCallbacks' = writeCallbacks \o
                [i \in 1..Len(d.written) |-> d.written[i].id]
    /\ dataEvents' = dataEvents + 1
    /\ UNCHANGED <<responsesSent, running, isShuttingDown, server, bridgeVars,
                   portVars, svcVars, stdinVars, sweepVars,
                   moreVars>>

\* The callback of process.stdout.write, without error.
WriteCallback ==
    /\ running
    /\ writeCallbacks # <<>>
    /\ responsesSent' = responsesSent \cup {Head(writeCallbacks)}
    /\ writeCallbacks' = Tail(writeCallbacks)
    /\ UNCHANGED <<bridgeOutputBuffer, clientStdout, dataEvents, running,
                   isShuttingDown, server, bridgeVars, portVars, svcVars,
                   stdinVars, sweepVars, moreVars>>

InitDedup ==
    /\ running = TRUE
    /\ isShuttingDown = FALSE
    /\ server = "none"
    /\ BridgeIdle
    /\ PortIdle
    /\ SvcIdle
    /\ AuxIdle

NextDedup ==
    \/ \E chunk \in ResponseChunks : BridgeStdoutData(chunk)
    \/ WriteCallback

SpecDedup == InitDedup /\ [][NextDedup]_vars

\* C30: no two lines written to the client's stdout carry the same
\* response id.
C30_ForwardedOncePerId ==
    \A i, j \in 1..Len(clientStdout) :
        i # j => clientStdout[i].id # clientStdout[j].id

\* ---------------------------------------------------- claims C31..C40
\* C37: while the bridge is not shutting down, pendingRequests holds exactly
\* the internal ids of the forwarded requests whose promise is not settled,
\* each with its timeout armed; the ids come from a counter that starts at 1
\* and only increases, every forwarded request taking the next value.
C37_PendingTableExact ==
    /\ [](~isShuttingDown
          => /\ pendingRequests = {id \in DOMAIN calls :
                                      calls[id].promise = "pending"}
             /\ pendingRequests \subseteq timers
             /\ nextRequestId = Len(calls) + 1
             /\ \A id \in pendingRequests : 1 <= id /\ id < nextRequestId)
    /\ [][/\ nextRequestId' >= nextRequestId
          /\ pendingRequests' \ pendingRequests \subseteq {nextRequestId}
          /\ Len(calls') > Len(calls) => nextRequestId' = nextRequestId + 1]_vars

\* Two forwarded requests wait in the table under the ids 1 and 2.
C37_Witness ==
    /\ ~isShuttingDown
    /\ pendingRequests = {1, 2}
    /\ timers = {1, 2}
    /\ nextRequestId = 3

\* C33: while the most recently accepted peer socket is open,
\* obsidianConnection refers to it; the close of an older socket does not
\* reject a request that was sent on a socket that is still open.
C33_CurrentPeerSurvivesOldClose ==
    /\ []((nextConn - 1) \in conns => obsidianConnection = nextConn - 1)
    /\ [][\A id \in DOMAIN calls :
             (calls[id].promise = "pending" /\ calls'[id].why = "closed")
             => calls[id].conn \notin conns']_vars

\* C32: at most one child bridge spawned by the Supervisor is alive at any
\* time.
C32_AtMostOneChild == Cardinality(alive) <= 1

\* C34: when a child bridge is alive bridgeProcess refers to it, and
\* bridgeProcess is null only when no child is alive.
C34_BridgeProcessIsTheChild ==
    /\ \A c \in alive : bridgeProcess = c
    /\ bridgeProcess = NoChild => alive = {}

\* ------------------------------------------- bridge: listener at run time
\* createServer, the handlers setupServerHandlers puts on the server, and
\* cleanup, with every WebSocket.Server object the process creates.  A call
\* of createServer is due at startup and whenever one of its timers fires.
MaxServers == 3   \* WebSocket.Server objects created in one run
MaxFaults  == 1   \* 'error' events on a listening server in one run

bridgeRest == <<conns, nextConn, obsidianConnection, pendingRequests, timers,
                nextRequestId, calls, requests, stdout, late>>
portRest == <<cs, attempts, lastBind, starts, persisted, prevPersisted>>
exceptListener == <<server, bridgeRest, portRest, svcVars, stdinVars,
                    sweepVars, dedupVars, lockVars, legacyVars,
                    pluginVars>>

\* new WebSocket.Server({ port })
newServer(port) ==
    [port |-> port, state |-> "binding", handlers |-> 0, closeCbs |-> 0]

\* server.close(cb) on object o of S; cbs is 1 for the callback of the
\* 'error' handler, which arms the 2 s timer, and 0 otherwise.  The callback
\* runs when the server has closed.
serverClose(S, o, cbs) ==
    IF o # 0 /\ S[o].state \in {"binding", "listening"}
    THEN [S EXCEPT ![o].state = "closing", ![o].closeCbs = @ + cbs]
    ELSE S

\* setupServerHandlers(): one more set of handlers on the object that the
\* variable server refers to.
setupServerHandlers(S, o) ==
    IF o = 0 THEN S ELSE [S EXCEPT ![o].handlers = @ + 1]

\* The port is held by a server of this process.
portHeld(S, port) ==
    \E o \in 1..Len(S) : S[o].port = port /\ S[o].state \in {"listening", "closing"}

\* createServer() is called: at startup, or by one of its timers.
LsCreateServer ==
    /\ running
    /\ createCalls > 0
    /\ createCalls' = createCalls - 1
    /\ IF isShuttingDown
       THEN UNCHANGED <<servers, serverRef, runs, currentPort>>
       ELSE /\ Len(servers) < MaxServers
            /\ currentPort' = loadLastSuccessfulPort(portFile, currentPort)
            /\ servers' = Append(servers, newServer(currentPort'))
            /\ serverRef' = Len(servers) + 1
            /\ runs' = Append(runs, [pc |-> "binding", port |-> currentPort',
                                     srv |-> Len(servers) + 1])
    /\ UNCHANGED <<faults, portFile, running, isShuttingDown, stdinOpen,
                   exceptListener>>

\* 'listening' on the server of run r: the port is saved, the promise
\* resolves, setupServerHandlers runs and createServer returns.
LsListening(r) ==
    /\ running
    /\ r \in 1..Len(runs)
    /\ runs[r].pc = "binding"
    /\ servers[runs[r].srv].state = "binding"
    /\ ~portHeld(servers, runs[r].port)
    /\ currentPort' = runs[r].port
    /\ portFile' = saveSuccessfulPort(runs[r].port)
    /\ servers' = setupServerHandlers(
                     [servers EXCEPT ![runs[r].srv].state = "listening"],
                     serverRef)
    /\ runs' = [runs EXCEPT ![r].pc = "done"]
    /\ UNCHANGED <<serverRef, createCalls, faults, running, isShuttingDown,
                   stdinOpen, exceptListener>>

\* 'error' EADDRINUSE on the server of run r: server.close(); the promise
\* stays unsettled.
LsAddrInUse(r) ==
    /\ running
    /\ r \in 1..Len(runs)
    /\ runs[r].pc = "binding"
    /\ servers[runs[r].srv].state = "binding"
    /\ servers' = serverClose([servers EXCEPT ![runs[r].srv].state = "failed"],
                              serverRef, 0)
    /\ runs' = [runs EXCEPT ![r].pc = "stuck"]
    /\ UNCHANGED <<serverRef, createCalls, faults, currentPort, portFile,
                   running, isShuttingDown, stdinOpen, exceptListener>>

\* 'error' with another code on the server of run r: the promise rejects and
\* the catch block starts its 2 s wait.
LsBindError(r) ==
    /\ running
    /\ r \in 1..Len(runs)
    /\ runs[r].pc = "binding"
    /\ servers[runs[r].srv].state = "binding"
    /\ servers' = [servers EXCEPT ![runs[r].srv].state = "failed"]
    /\ runs' = [runs EXCEPT ![r].pc = "backoff"]
    /\ UNCHANGED <<serverRef, createCalls, faults, currentPort, portFile,
                   running, isShuttingDown, stdinOpen, exceptListener>>

\* After the 2 s wait: port++ and the loop condition.
backoffBinds(shutting, port) == port <= PORT_MAX

\* The 2 s wait of run r ends: the loop binds the next port or, past the
\* range, arms the 5 s timer.
LsBackoffDone(r) ==
    /\ running
    /\ r \in 1..Len(runs)
    /\ runs[r].pc = "backoff"
    /\ IF backoffBinds(isShuttingDown, runs[r].port + 1)
       THEN /\ Len(servers) < MaxServers
            /\ servers' = Append(servers, newServer(runs[r].port + 1))
            /\ serverRef' = Len(servers) + 1
            /\ runs' = [runs EXCEPT ![r] = [pc |-> "binding",
                                            port |-> runs[r].port + 1,
                                            srv |-> Len(servers) + 1]]
            /\ UNCHANGED createCalls
       ELSE /\ runs' = [runs EXCEPT ![r].pc = "done"]
            /\ createCalls' = createCalls + 1
            /\ UNCHANGED <<servers, serverRef>>
    /\ UNCHANGED <<faults, currentPort, portFile, running, isShuttingDown,
                   stdinOpen, exceptListener>>

\* 'error' on the listening server o: each 'error' handler that
\* setupServerHandlers put on it calls server.close(callback).
LsServerError(o) ==
    /\ running
    /\ faults < MaxFaults
    /\ o \in 1..Len(servers)
    /\ servers[o].state = "listening"
    /\ faults' = faults + 1
    /\ servers' = IF isShuttingDown THEN servers
                  ELSE serverClose(servers, serverRef, servers[o].handlers)
    /\ UNCHANGED <<serverRef, runs, createCalls, currentPort, portFile,
                   running, isShuttingDown, stdinOpen, exceptListener>>

\* Timers armed when a server has closed: one by each 'close' handler unless
\* shutting down, one by each callback given to server.close.
closeTimers(shutting, handlers, cbs) ==
    (IF shutting THEN 0 ELSE handlers) + cbs

\* The server o has closed: 'close' is emitted.
LsServerClosed(o) ==
    /\ running
    /\ o \in 1..Len(servers)
    /\ servers[o].state = "closing"
    /\ servers' = [servers EXCEPT ![o].state = "closed", ![o].closeCbs = 0]
    /\ createCalls' = createCalls + closeTimers(isShuttingDown,
                                                servers[o].handlers,
                                                servers[o].closeCbs)
    /\ UNCHANGED <<serverRef, runs, faults, currentPort, portFile, running,
                   isShuttingDown, stdinOpen, exceptListener>>

\* process.stdin 'end': isShuttingDown and cleanup(); the process stays up.
LsStdinEnd ==
    /\ running /\ stdinOpen
    /\ stdinOpen' = FALSE
    /\ isShuttingDown' = TRUE
    /\ servers' = serverClose(servers, serverRef, 0)
    /\ UNCHANGED <<serverRef, runs, createCalls, faults, currentPort, portFile,
                   running, exceptListener>>

\* SIGINT / SIGTERM: cleanup() and process.exit(0).
LsSignal ==
    /\ running
    /\ running' = FALSE
    /\ isShuttingDown' = TRUE
    /\ servers' = serverClose(servers, serverRef, 0)
    /\ UNCHANGED <<serverRef, runs, createCalls, faults, currentPort, portFile,
                   stdinOpen, exceptListener>>

\* The module was loaded: the call of createServer at its end is due.
InitListener ==
    /\ running = TRUE
    /\ isShuttingDown = FALSE
    /\ server = "none"
    /\ BridgeIdle
    /\ cs = [pc |-> "done", port |-> DEFAULT_PORT, retry |-> FALSE]
    /\ currentPort = DEFAULT_PORT
    /\ portFile \in {[exists |-> FALSE, content |-> <<>>],
                     saveSuccessfulPort(PORT_MAX)}
    /\ attempts = <<>>
    /\ lastBind = NoBind
    /\ starts = 1
    /\ persisted = 0
    /\ prevPersisted = 0
    /\ SvcIdle
    /\ StdinIdle
    /\ SweepIdle
    /\ DedupIdle
    /\ servers = <<>>
    /\ serverRef = 0
    /\ runs = <<>>
    /\ createCalls = 1
    /\ faults = 0
    /\ LockIdle
    /\ LegacyIdle
    /\ PluginIdle

NextListener ==
    \/ LsCreateServer
    \/ \E r \in 1..MaxServers : LsListening(r)
    \/ \E r \in 1..MaxServers : LsAddrInUse(r)
    \/ \E r \in 1..MaxServers : LsBindError(r)
    \/ \E r \in 1..MaxServers : LsBackoffDone(r)
    \/ \E o \in 1..MaxServers : LsServerError(o)
    \/ \E o \in 1..MaxServers : LsServerClosed(o)
    \/ LsStdinEnd
    \/ LsSignal

SpecListener == InitListener /\ [][NextListener]_vars

\* C35: after a listener failure at run time one recreation is scheduled:
\* at no time is more than one call of createServer due or under way, and
\* at most one server of the process listens.
C35_OneRecreation ==
    /\ createCalls
         + Cardinality({r \in 1..Len(runs) : runs[r].pc \in {"binding", "backoff"}})
       <= 1
    /\ Cardinality({o \in 1..Len(servers) : servers[o].state = "listening"}) <= 1

\* C39: once isShuttingDown is set no server object is created and no server
\* starts to listen.
C39_NoBindAfterShutdown ==
    [][isShuttingDown
       => /\ Len(servers') = Len(servers)
          /\ \A o \in 1..Len(servers) :
                servers'[o].state = "listening" => servers[o].state = "listening"]_vars

\* ------------------------------------ supervisor: instances and pid files
\* Instances of auto_service.js that are started one after another and
\* share service.pid and bridge.pid.  An instance is a process of its own:
\* its SIGTERM handler runs at any point of another instance's main().
MaxInstances == 3   \* Supervisor instances launched in one run

InstPid(i)  == SvcPid + i          \* process.pid of instance i
ChildPid(i) == 2 * SvcPid + i      \* pid of the bridge instance i spawns

svcRest == <<svcPc, exitCode, shutdownRequested, restartCount, age,
             bridgeProcess, alive, nextChild, restartTimers, cooldownTimers,
             healthOn, healthIn, sigtermSent, killed, lastSpawn, owed, lineTo>>
exceptLock == <<running, isShuttingDown, server, bridgeVars, portVars, svcRest,
                stdinVars, sweepVars, dedupVars, listenerVars, legacyVars,
                pluginVars>>

\* isProcessRunning(pid)
isProcessRunning(pid) ==
    \E i \in 1..MaxInstances :
        \/ pid = InstPid(i) /\ instPc[i] \in {"cleaned", "running"}
        \/ pid = ChildPid(i) /\ childUp[i]

\* killProcess(pid): SIGTERM to a process that runs.
killProcess(pid) == IF isProcessRunning(pid) THEN {pid} ELSE {}

\* Instance i is launched; main() runs cleanupExistingProcesses.
LockCleanup(i) ==
    /\ instPc[i] = "off"
    /\ \A j \in 1..(i - 1) : instPc[j] # "off"
    /\ sigPending' = sigPending
          \cup (IF servicePidFile # 0 /\ servicePidFile # InstPid(i)
                THEN killProcess(servicePidFile) ELSE {})
          \cup (IF bridgePidFile # 0 THEN killProcess(bridgePidFile) ELSE {})
    /\ servicePidFile' = 0
    /\ bridgePidFile' = 0
    /\ instPc' = [instPc EXCEPT ![i] = "cleaned"]
    /\ UNCHANGED <<childUp, exceptLock>>

\* main() of instance i goes on: createPidFile, startBridge.
LockCreate(i) ==
    /\ instPc[i] = "cleaned"
    /\ servicePidFile' = InstPid(i)
    /\ bridgePidFile' = ChildPid(i)
    /\ childUp' = [childUp EXCEPT ![i] = TRUE]
    /\ instPc' = [instPc EXCEPT ![i] = "running"]
    /\ UNCHANGED <<sigPending, exceptLock>>

\* cleanup(): if (fs.existsSync(f)) fs.unlinkSync(f)
cleanupPidFile(file) == 0

\* The SIGTERM handler of instance i: cleanup() and process.exit(0).
LockSigterm(i) ==
    /\ instPc[i] = "running"
    /\ InstPid(i) \in sigPending
    /\ sigPending' = (sigPending \ {InstPid(i)})
                        \cup (IF childUp[i] THEN {ChildPid(i)} ELSE {})
    /\ servicePidFile' = cleanupPidFile(servicePidFile)
    /\ bridgePidFile' = cleanupPidFile(bridgePidFile)
    /\ instPc' = [instPc EXCEPT ![i] = "exited"]
    /\ UNCHANGED <<childUp, exceptLock>>

\* The bridge of instance i ends on a SIGTERM; the exit handler of its
\* parent, if that still runs, arms no restart for this signal.
LockChildExit(i) ==
    /\ childUp[i]
    /\ ChildPid(i) \in sigPending
    /\ childUp' = [childUp EXCEPT ![i] = FALSE]
    /\ sigPending' = sigPending \ {ChildPid(i)}
    /\ UNCHANGED <<instPc, servicePidFile, bridgePidFile, exceptLock>>

\* The user stops instance i with a SIGTERM.
LockUserStop(i) ==
    /\ instPc[i] = "running"
    /\ InstPid(i) \notin sigPending
    /\ sigPending' = sigPending \cup {InstPid(i)}
    /\ UNCHANGED <<instPc, childUp, servicePidFile, bridgePidFile, exceptLock>>

InitLock ==
    /\ running = TRUE
    /\ isShuttingDown = FALSE
    /\ server = "none"
    /\ BridgeIdle
    /\ PortIdle
    /\ SvcIdle
    /\ StdinIdle
    /\ SweepIdle
    /\ DedupIdle
    /\ ListenerIdle
    /\ instPc = [i \in 1..MaxInstances |-> "off"]
    /\ childUp = [i \in 1..MaxInstances |-> FALSE]
    /\ sigPending = {}
    /\ LegacyIdle
    /\ PluginIdle

NextLock ==
    \/ \E i \in 1..MaxInstances : LockCleanup(i)
    \/ \E i \in 1..MaxInstances : LockCreate(i)
    \/ \E i \in 1..MaxInstances : LockSigterm(i)
    \/ \E i \in 1..MaxInstances : LockChildExit(i)
    \/ \E i \in 1..MaxInstances : LockUserStop(i)

SpecLock == InitLock /\ [][NextLock]_vars

\* C36: the shutdown cleanup of one instance does not delete or overwrite
\* the lock file of another: when service.pid holds the pid of an instance
\* that runs and was not told to stop, it still does after another instance
\* has handled its SIGTERM.
C36_LockFileSurvivesOldCleanup ==
    [][\A i, j \in 1..MaxInstances :
          (/\ instPc[j] = "running" /\ instPc'[j] = "exited"
           /\ instPc[i] = "running" /\ InstPid(i) \notin sigPending
           /\ servicePidFile = InstPid(i))
          => servicePidFile' = InstPid(i)]_vars

\* ------------------------------------- legacy bridge.js: the pending table
\* forwardToObsidian of bridge.js stores its handlers under the id of the
\* client's request; the timer callback and the 'message' handler look the
\* id up.
MaxLegacyCalls == 3   \* tools/call requests forwarded in one run

LegacyIds == {7, 8}

exceptLegacy == <<running, isShuttingDown, server, bridgeVars, portVars,
                  svcVars, stdinVars, sweepVars, dedupVars, listenerVars,
                  lockVars, pluginVars>>

\* pendingRequests.has(id), .delete(id), .set(id, entry of call c)
lgHas(pending, id) == \E e \in pending : e[1] = id
lgDelete(pending, id) == {e \in pending : e[1] # id}
lgSet(pending, id, c) == lgDelete(pending, id) \cup {<<id, c>>}
lgGet(pending, id) == (CHOOSE e \in pending : e[1] = id)[2]

\* server 'connection'
LgConnect ==
    /\ running
    /\ ~lgConnected
    /\ lgConnected' = TRUE
    /\ UNCHANGED <<lgPending, lgCalls, lgTimers, exceptLegacy>>

\* A tools/call line with the client id: without a peer processRequest
\* returns an error object; with one, forwardToObsidian arms the timer,
\* stores the entry and sends.
LgToolsCall(id) ==
    /\ running
    /\ Len(lgCalls) < MaxLegacyCalls
    /\ IF ~lgConnected
       THEN /\ lgCalls' = Append(lgCalls, [id |-> id, promise |-> "none",
                                           why |-> "notConnected"])
            /\ UNCHANGED <<lgPending, lgTimers>>
       ELSE /\ lgCalls' = Append(lgCalls, [id |-> id, promise |-> "pending",
                                           why |-> ""])
            /\ lgTimers' = lgTimers \cup {Len(lgCalls) + 1}
            /\ lgPending' = lgSet(lgPending, id, Len(lgCalls) + 1)
    /\ UNCHANGED <<lgConnected, exceptLegacy>>

\* ws 'message' with a response for id.
LgPeerMessage(id, kind) ==
    /\ running
    /\ lgConnected
    /\ IF lgHas(lgPending, id)
       THEN LET c == lgGet(lgPending, id)
            IN /\ lgTimers' = lgTimers \ {c}
               /\ lgPending' = lgDelete(lgPending, id)
               /\ lgCalls' = [lgCalls EXCEPT
                     ![c].promise = IF kind = "error" THEN "rejected"
                                    ELSE "fulfilled",
                     ![c].why = IF kind = "error" THEN "peerError" ELSE "result"]
       ELSE UNCHANGED <<lgPending, lgCalls, lgTimers>>
    /\ UNCHANGED <<lgConnected, exceptLegacy>>

\* The 15 s timer of call c fires, the timers in the order they were armed:
\* it tests and deletes the key of its id and rejects its own promise.
LgTimeout(c) ==
    /\ running
    /\ c \in lgTimers
    /\ \A d \in lgTimers : c <= d
    /\ lgTimers' = lgTimers \ {c}
    /\ IF lgHas(lgPending, lgCalls[c].id)
       THEN /\ lgPending' = lgDelete(lgPending, lgCalls[c].id)
            /\ lgCalls' = [lgCalls EXCEPT
                  ![c].promise = IF @ = "pending" THEN "rejected" ELSE @,
                  ![c].why = IF lgCalls[c].promise = "pending" THEN "timeout"
                             ELSE @]
       ELSE UNCHANGED <<lgPending, lgCalls>>
    /\ UNCHANGED <<lgConnected, exceptLegacy>>

\* ws 'close': every entry of the table is rejected, its timer cleared.
LgClose ==
    /\ running
    /\ lgConnected
    /\ lgConnected' = FALSE
    /\ lgTimers' = lgTimers \ {e[2] : e \in lgPending}
    /\ lgCalls' = [c \in DOMAIN lgCalls |->
                      IF \E e \in lgPending : e[2] = c
                      THEN [lgCalls[c] EXCEPT !.promise = "rejected",
                                              !.why = "closed"]
                      ELSE lgCalls[c]]
    /\ lgPending' = {}
    /\ UNCHANGED exceptLegacy

InitLegacy ==
    /\ running = TRUE
    /\ isShuttingDown = FALSE
    /\ server = "listening"
    /\ BridgeIdle
    /\ PortIdle
    /\ SvcIdle
    /\ AuxIdle

NextLegacy ==
    \/ LgConnect
    \/ \E id \in LegacyIds : LgToolsCall(id)
    \/ \E id \in LegacyIds, kind \in {"result", "error"} : LgPeerMessage(id, kind)
    \/ \E c \in 1..MaxLegacyCalls : LgTimeout(c)
    \/ LgClose

SpecLegacy == InitLegacy /\ [][NextLegacy]_vars

\* C38: a forwarded call is never left without a way to be resolved: while
\* its promise is pending its timer is armed or the entry of its id is its
\* own; and the timeout of a call only removes the entry of that call.
C38_SameIdBothResolved ==
    /\ [](\A c \in 1..Len(lgCalls) :
             lgCalls[c].promise = "pending"
             => (c \in lgTimers \/ <<lgCalls[c].id, c>> \in lgPending))
    /\ [][\A c \in 1..Len(lgCalls) :
             (lgCalls[c].promise = "pending" /\ lgCalls'[c].why = "timeout")
             => lgPending \ lgPending' \subseteq {<<lgCalls[c].id, c>>}]_vars

\* ------------------------------------------- main.ts: the connection loop
\* The plugin of main.ts and the bridge it looks for.  A WebSocket object is
\* kept until its 'close' event has run; a closed one takes no further part.
\* The constructor new WebSocket(url) does not throw for a well-formed
\* ws://localhost url (a refused connection is reported by 'error' and
\* 'close'), so the catch block of connectToServer is never entered.
MaxSockets == 2   \* WebSocket objects not yet closed at one time
MaxMoves == 1   \* restarts of the bridge on another port in one run

WS_PORTS == [i \in 1..11 |-> 27125 + (i - 1)]

\* WS_PORTS.indexOf(port): zero-based, -1 when absent.
indexOf(port) ==
    IF \E i \in 1..Len(WS_PORTS) : WS_PORTS[i] = port
    THEN (CHOOSE i \in 1..Len(WS_PORTS) : WS_PORTS[i] = port) - 1
    ELSE 0 - 1

NoSocket == [port |-> 0, state |-> "closed"]

exceptPlugin == <<running, isShuttingDown, server, bridgeVars, portVars,
                  svcVars, stdinVars, sweepVars, dedupVars, listenerVars,
                  lockVars, legacyVars>>

\* The index connectToServer uses: the saved port of localStorage while no
\* connection was opened yet, else the current index.
startIndex(last, storage, cur) ==
    IF last = 0 /\ storage # <<>>
    THEN LET port  == parseInt(storage)
             index == IF port.nan THEN 0 - 1 ELSE indexOf(port.val)
         IN  IF index >= 0 THEN index ELSE cur
    ELSE cur

\* connectToServer(), with the flag as its caller left it.
connectToServer(flag) ==
    IF flag
    THEN /\ UNCHANGED <<sockets, webSocket, reconnecting, currentPortIndex>>
    ELSE \E s \in 1..MaxSockets :
            /\ sockets[s].state = "closed"
            /\ \A t \in 1..(s - 1) : sockets[t].state # "closed"
            /\ LET index == startIndex(lastActivePort, localStorage,
                                       currentPortIndex)
               IN  /\ reconnecting' = TRUE
                   /\ currentPortIndex' = index
                   /\ sockets' = [sockets EXCEPT
                          ![s] = [port |-> WS_PORTS[index + 1],
                                  state |-> "connecting"]]
                   /\ webSocket' = s

\* onload(): the plugin connects.
PlLoad ==
    /\ plPhase = "new"
    /\ plPhase' = "loaded"
    /\ connectToServer(reconnecting)
    /\ UNCHANGED <<reconnectTimer, attemptCount, lastActivePort, localStorage,
                   bridgePort, bridgeMoves, exceptPlugin>>

\* ws.onopen: the bridge accepted the connection.
PlOpen(s) ==
    /\ sockets[s].state = "connecting"
    /\ sockets[s].port = bridgePort
    /\ sockets' = [sockets EXCEPT ![s].state = "open"]
    /\ attemptCount' = 0
    /\ lastActivePort' = sockets[s].port
    /\ reconnecting' = FALSE
    /\ localStorage' = toString(sockets[s].port)
    /\ UNCHANGED <<plPhase, webSocket, reconnectTimer, currentPortIndex,
                   bridgePort, bridgeMoves, exceptPlugin>>

\* ws.onclose of socket s: back to the last active port when there is one,
\* and a timer for the next attempt.
onclose(s) ==
    /\ sockets' = [sockets EXCEPT ![s] = NoSocket]
    /\ currentPortIndex' = IF lastActivePort # 0 THEN indexOf(lastActivePort)
                           ELSE currentPortIndex
    /\ attemptCount' = IF attemptCount + 1 > 10 THEN 0 ELSE attemptCount + 1
    /\ reconnectTimer' = TRUE
    /\ UNCHANGED <<plPhase, webSocket, reconnecting, lastActivePort,
                   localStorage, bridgePort, bridgeMoves, exceptPlugin>>

\* Nothing listens on the port: 'error' (a log line), then 'close'.
PlRefused(s) ==
    /\ sockets[s].state = "connecting"
    /\ sockets[s].port # bridgePort
    /\ onclose(s)

\* The bridge that held the connection is gone: 'close'.
PlDropped(s) ==
    /\ sockets[s].state = "open"
    /\ sockets[s].port # bridgePort
    /\ onclose(s)

\* The 'close' event of a socket the plugin closed itself.
PlClosed(s) ==
    /\ sockets[s].state = "closing"
    /\ onclose(s)

\* The reconnect timer fires: the flag is reset and connectToServer runs.
PlTimer ==
    /\ reconnectTimer
    /\ reconnectTimer' = FALSE
    /\ connectToServer(FALSE)
    /\ UNCHANGED <<plPhase, attemptCount, lastActivePort, localStorage,
                   bridgePort, bridgeMoves, exceptPlugin>>

\* onunload(): the timer is cleared and the socket closed.
PlUnload ==
    /\ plPhase = "loaded"
    /\ plPhase' = "unloaded"
    /\ reconnectTimer' = FALSE
    /\ sockets' = IF webSocket # 0 /\ sockets[webSocket].state # "closed"
                  THEN [sockets EXCEPT ![webSocket].state = "closing"]
                  ELSE sockets
    /\ UNCHANGED <<webSocket, reconnecting, attemptCount, currentPortIndex,
                   lastActivePort, localStorage, bridgePort, bridgeMoves,
                   exceptPlugin>>

\* The bridge is restarted and binds another port of its range.
PlBridgeRestart(p) ==
    /\ bridgeMoves < MaxMoves
    /\ p # bridgePort
    /\ bridgePort' = p
    /\ bridgeMoves' = bridgeMoves + 1
    /\ UNCHANGED <<plPhase, sockets, webSocket, reconnecting, reconnectTimer,
                   attemptCount, currentPortIndex, lastActivePort,
                   localStorage, exceptPlugin>>

\* The ports the bridge is placed on, and the ports an earlier session of
\* the plugin may have saved.
BridgePorts == {PORT_MIN, PORT_MIN + 1, PORT_MAX}
SavedPorts == {PORT_MIN, PORT_MIN + 1, PORT_MAX}

InitPlugin ==
    /\ running = FALSE
    /\ isShuttingDown = FALSE
    /\ server = "none"
    /\ BridgeIdle
    /\ PortIdle
    /\ SvcIdle
    /\ StdinIdle
    /\ SweepIdle
    /\ DedupIdle
    /\ ListenerIdle
    /\ LockIdle
    /\ LegacyIdle
    /\ plPhase = "new"
    /\ sockets = [s \in 1..MaxSockets |-> NoSocket]
    /\ webSocket = 0
    /\ reconnecting = FALSE
    /\ reconnectTimer = FALSE
    /\ attemptCount = 0
    /\ currentPortIndex = 0
    /\ lastActivePort = 0
    /\ localStorage \in {<<>>} \cup {toString(p) : p \in SavedPorts}
    /\ bridgePort \in BridgePorts
    /\ bridgeMoves = 0

NextPlugin ==
    \/ PlLoad
    \/ \E s \in 1..MaxSockets : PlOpen(s)
    \/ \E s \in 1..MaxSockets : PlRefused(s)
    \/ \E s \in 1..MaxSockets : PlDropped(s)
    \/ \E s \in 1..MaxSockets : PlClosed(s)
    \/ PlTimer
    \/ PlUnload
    \/ \E p \in BridgePorts : PlBridgeRestart(p)

SpecPlugin == InitPlugin /\ [][NextPlugin]_vars

\* The browser runs a due timer and delivers the outcome of a connection
\* attempt; unloading and a restart of the bridge are not forced.
FairSpecPlugin ==
    /\ SpecPlugin
    /\ WF_vars(PlLoad)
    /\ WF_vars(PlTimer)
    /\ \A s \in 1..MaxSockets :
          /\ WF_vars(PlOpen(s))
          /\ WF_vars(PlRefused(s))
          /\ WF_vars(PlDropped(s))
          /\ WF_vars(PlClosed(s))

Connecting == {s \in 1..MaxSockets : sockets[s].state = "connecting"}
Connected ==
    \E s \in 1..MaxSockets :
        sockets[s].state = "open" /\ sockets[s].port = bridgePort

\* C31: with a bridge listening on a port of 27125..27135 and staying up,
\* the loaded plugin eventually holds an open connection to it, whichever
\* port that is and whatever port it was connected to before.
C31_FindsTheBridge == <>[](plPhase = "unloaded" \/ Connected)

\* C40: after onunload the plugin makes no further connection attempt, and
\* while it is loaded at most one attempt is in progress.
C40_NoAttemptAfterUnload ==
    /\ [](plPhase = "loaded" => Cardinality(Connecting) <= 1)
    /\ [][plPhase = "unloaded" => Connecting' \subseteq Connecting]_vars

====
